---- MODULE Spec2Model ----
(***************************************************************************)
(* News aggregator API: the in-process TTL cache (services/cacheService),  *)
(* the article tracking store (models/Article), the news service with its  *)
(* personalization aggregator (services/newsService), the news controllers *)
(* and the background job scheduler (services/backgroundJobService).       *)
(*                                                                         *)
(* Time is a natural number `now` (Date.now()); one unit stands for 300 s, *)
(* so the 5-minute cache TTL is 1 unit.   Strings are sequences of         *)
(* one-character strings; a Map is a function whose DOMAIN is its key set. *)
(***************************************************************************)
EXTENDS Integers, Sequences, FiniteSets, TLC

VARIABLES
  now,              \* Date.now()
  cache,            \* CacheService.cache : Map key -> {value, expiresAt, cachedAt}
  ret,              \* what the last completed call returned to its caller
  written,          \* history: key -> the last set of that key not yet deleted/cleared
  articleMetadata,  \* Article.articleMetadata : Map id -> metadata
  readArticles,     \* Article.readArticles : Map userId -> Set(id)
  favoriteArticles, \* Article.favoriteArticles : Map userId -> Map(id -> snapshot)
  ncalls,           \* the number of steps taken on the Article store so far
  apiKey,           \* NewsService.apiKey (process.env.GNEWS_API_KEY)
  users,            \* User.users : the stored users, in creation order
  direct,           \* the GET /news/search requests in progress, by slot
  pz,               \* the getPersonalizedNews calls in progress, by caller
  jobs,             \* BackgroundJobService : {isRunning, intervals}
  timers,           \* the interval timers armed in the event loop, by task
  currentId,        \* User.currentId : the id of the next user created
  reg               \* the registrations waiting for hashPassword, by request

cacheVars == <<cache, ret, written>>
articleVars == <<articleMetadata, readArticles, favoriteArticles, ncalls>>
newsVars == <<apiKey, users, direct, pz>>
jobVars == <<jobs, timers>>
userVars == <<currentId, reg>>
vars == <<now, cache, ret, written, articleMetadata, readArticles, favoriteArticles, ncalls,
          apiKey, users, direct, pz, jobs, timers, currentId, reg>>

(***************************************************************************)
(* Bounds of the model.                                                    *)
(***************************************************************************)
MaxTime == 4
MaxTtl == 2
MaxAge == 1
MaxCalls == 4
MaxDirect == 1
MaxNewsTime == 2
MaxRegister == 2
MaxUsers == 2
MaxParams == 2

(***************************************************************************)
(* Generic helpers.                                                        *)
(***************************************************************************)
Null == [isNull |-> TRUE]

Range(s) == {s[i] : i \in DOMAIN s}

Take(s, n) == SubSeq(s, 1, IF n < Len(s) THEN n ELSE Len(s))

RECURSIVE Flatten(_)
Flatten(ss) == IF ss = <<>> THEN <<>> ELSE Head(ss) \o Flatten(Tail(ss))

\* A JS Map with key k set to v (Map.prototype.set)
MapSet(m, k, v) == [x \in DOMAIN m \cup {k} |-> IF x = k THEN v ELSE m[x]]

\* A JS Map with key k removed (Map.prototype.delete)
MapDelete(m, k) == [x \in DOMAIN m \ {k} |-> m[x]]

EmptyMap == [x \in {} |-> Null]

\* A flow that is not in progress
Idle == [pc |-> "idle"]

\* process.env.GNEWS_API_KEY: a real key, the placeholder of .env.example, or unset
Str_key == <<"k">>
Str_placeholder == <<"y", "o", "u", "r", "_", "g", "n", "e", "w", "s", "_", "a", "p", "i",
                     "_", "k", "e", "y", "_", "h", "e", "r", "e">>
\* undefined, where a string is expected: no string of characters equals it
Undefined == <<"undefined">>

\* Who calls getPersonalizedNews: the GET /news handler, the cache-warm task
Callers == {"getNews", "warm"}

\* The three periodic tasks: the keys of BackgroundJobService.intervals
Tasks == {"cacheUpdate", "cacheCleanup", "articleCleanup"}

\* BackgroundJobService after its constructor; intervals[task] is TRUE when it
\* holds the handle of a timer and FALSE when it is null
JobsStopped == [isRunning |-> FALSE, intervals |-> [task \in Tasks |-> FALSE]]

(***************************************************************************)
(* Strings.                                                                *)
(***************************************************************************)
Str_search == <<"s", "e", "a", "r", "c", "h">>
Str_query == <<"q", "u", "e", "r", "y">>
Str_ai == <<"a", "i">>
Str_tv == <<"t", "v">>

\* The service-level search queries and topics of the model
Queries == {Str_ai, Str_tv}

(***************************************************************************)
(* CacheService (src/services/cacheService.js)                             *)
(***************************************************************************)
\* this.ttl, the default TTL: 5 minutes
DefaultTTL == 1

\* the code units of the lower-case letters, in increasing order
Alphabet ==
  <<"a", "b", "c", "d", "e", "f", "g", "h", "i", "j", "k", "l", "m",
    "n", "o", "p", "q", "r", "s", "t", "u", "v", "w", "x", "y", "z">>

CodeUnit(ch) == CHOOSE i \in DOMAIN Alphabet : Alphabet[i] = ch

\* a < b as the default comparison of Array.prototype.sort orders strings:
\* by code units, a proper prefix first
StringLess(a, b) ==
  \E k \in 1..(Len(b)) :
    /\ k - 1 <= Len(a)
    /\ \A j \in 1..(k - 1) : a[j] = b[j]
    /\ k > Len(a) \/ CodeUnit(a[k]) < CodeUnit(b[k])

\* Object.keys(params): the names in insertion order
ObjectKeys(params) == [i \in DOMAIN params |-> params[i].name]

\* names.sort()
RECURSIVE SortStrings(_)
SortStrings(names) ==
  IF names = <<>> THEN <<>>
  ELSE LET least == CHOOSE i \in DOMAIN names :
                      \A j \in DOMAIN names : j # i => ~StringLess(names[j], names[i])
       IN <<names[least]>> \o
            SortStrings([i \in 1..(Len(names) - 1) |->
                           IF i < least THEN names[i] ELSE names[i + 1]])

\* the names left in insertion order
SortedKeysUnsorted(params) == ObjectKeys(params)

\* Object.keys(params).sort()
SortedKeys(params) == SortStrings(ObjectKeys(params))

\* generateKey(prefix, params): params is the list of [name, value] pairs in
\* insertion order; the key is prefix ":" name ":" value "|" name ":" value ...
RECURSIVE JoinParams(_, _)
JoinParams(names, params) ==
  IF names = <<>> THEN <<>>
  ELSE LET n == Head(names)
           hit == {i \in DOMAIN params : params[i].name = n}
           rest == JoinParams(Tail(names), params)
       IN IF hit = {} THEN rest
          ELSE LET v == params[CHOOSE i \in hit : \A j \in hit : j <= i].value
                   one == n \o <<":">> \o v
               IN IF rest = <<>> THEN one ELSE one \o <<"|">> \o rest

\* generateKey joining the names without their values
generateKeyNamesOnly(prefix, params) ==
  prefix \o <<":">> \o
    JoinParams(SortedKeys(params),
               [i \in DOMAIN params |-> [name |-> params[i].name, value |-> <<>>]])

generateKey(prefix, params) == prefix \o <<":">> \o JoinParams(SortedKeys(params), params)

\* newsService.js line 24, for the queries of the model
SearchKeys ==
  [q \in Queries |-> generateKey(Str_search, <<[name |-> Str_query, value |-> q]>>)]

\* const cacheKey = cacheService.generateKey("search", { query })
SearchKey(query) ==
  IF query \in Queries THEN SearchKeys[query]
  ELSE generateKey(Str_search, <<[name |-> Str_query, value |-> query]>>)

Keys == {SearchKey(q) : q \in Queries}

\* line 55: the expiry test of get
IsExpiredStrict(entry, t) == t >= entry.expiresAt

IsExpired(entry, t) == t > entry.expiresAt

\* set(key, value, ttl) that keeps the entry a key already has
CacheService_setIfAbsent(c, key, value, ttl, t) ==
  IF key \in DOMAIN c THEN c
  ELSE MapSet(c, key, [value |-> value, expiresAt |-> t + ttl, cachedAt |-> t])

\* set(key, value, ttl) at time t
CacheService_set(c, key, value, ttl, t) ==
  MapSet(c, key, [value |-> value, expiresAt |-> t + ttl, cachedAt |-> t])

\* get(key) at time t: the cache afterwards and the value returned
CacheService_get(c, key, t) ==
  IF key \notin DOMAIN c THEN [cache |-> c, value |-> Null]
  ELSE IF IsExpired(c[key], t) THEN [cache |-> MapDelete(c, key), value |-> Null]
  ELSE [cache |-> c, value |-> c[key].value]

\* clearExpired() removing the entries with now >= expiresAt
CacheService_clearExpiredStrict(c, t) ==
  [k \in {x \in DOMAIN c : ~(t >= c[x].expiresAt)} |-> c[k]]

\* clearExpired() at time t
CacheService_clearExpired(c, t) ==
  [k \in {x \in DOMAIN c : ~(t > c[x].expiresAt)} |-> c[k]]

\* getStats() at time t
CacheService_getStats(c, t) ==
  [total |-> Cardinality(DOMAIN c),
   valid |-> Cardinality({k \in DOMAIN c : ~(t > c[k].expiresAt)}),
   expired |-> Cardinality({k \in DOMAIN c : t > c[k].expiresAt}),
   ttl |-> DefaultTTL]

\* The values the cache API is driven with
CacheValues == {[data |-> "v1"], [data |-> "v2"]}

Tick ==
  /\ now < MaxTime
  /\ now' = now + 1
  /\ UNCHANGED <<cacheVars, articleVars, newsVars, jobVars, userVars>>

CallSet(k, v, ttl) ==
  /\ cache' = CacheService_set(cache, k, v, ttl, now)
  /\ written' = MapSet(written, k, [at |-> now, ttl |-> ttl, value |-> v])
  /\ ret' = [op |-> "set", key |-> k, at |-> now,
             replaced |-> IF k \in DOMAIN cache THEN cache[k].value ELSE Null]
  /\ UNCHANGED <<now, articleVars, newsVars, jobVars, userVars>>

CallGet(k) ==
  LET r == CacheService_get(cache, k, now)
  IN /\ cache' = r.cache
     /\ ret' = [op |-> "get", key |-> k, at |-> now, value |-> r.value]
     /\ UNCHANGED <<now, written, articleVars, newsVars, jobVars, userVars>>

\* has(key): get(key) !== null
CallHas(k) ==
  LET r == CacheService_get(cache, k, now)
  IN /\ cache' = r.cache
     /\ ret' = [op |-> "has", key |-> k, at |-> now, value |-> [bool |-> r.value # Null]]
     /\ UNCHANGED <<now, written, articleVars, newsVars, jobVars, userVars>>

CallDelete(k) ==
  /\ cache' = MapDelete(cache, k)
  /\ written' = MapDelete(written, k)
  /\ ret' = [op |-> "delete", key |-> k, at |-> now, value |-> [bool |-> k \in DOMAIN cache]]
  /\ UNCHANGED <<now, articleVars, newsVars, jobVars, userVars>>

CallClear ==
  /\ cache' = EmptyMap
  /\ written' = EmptyMap
  /\ ret' = [op |-> "clear", at |-> now]
  /\ UNCHANGED <<now, articleVars, newsVars, jobVars, userVars>>

CallClearExpired ==
  /\ cache' = CacheService_clearExpired(cache, now)
  /\ ret' = [op |-> "clearExpired", at |-> now]
  /\ UNCHANGED <<now, written, articleVars, newsVars, jobVars, userVars>>

CallGetStats ==
  /\ ret' = [op |-> "getStats", at |-> now, value |-> CacheService_getStats(cache, now)]
  /\ UNCHANGED <<now, cache, written, articleVars, newsVars, jobVars, userVars>>

InitCache ==
  /\ now = 0
  /\ cache = EmptyMap
  /\ written = EmptyMap
  /\ ret = [op |-> "none"]
  /\ articleMetadata = EmptyMap
  /\ readArticles = EmptyMap
  /\ favoriteArticles = EmptyMap
  /\ ncalls = 0
  /\ apiKey = Str_key
  /\ users = <<>>
  /\ direct = [s \in 1..MaxDirect |-> Idle]
  /\ pz = [c \in Callers |-> Idle]
  /\ jobs = JobsStopped
  /\ timers = [task \in Tasks |-> 0]
  /\ currentId = Len(users) + 1
  /\ reg = [slot \in 1..MaxRegister |-> Idle]

NextCache ==
  \/ Tick
  \/ \E k \in Keys, v \in CacheValues, ttl \in 1..MaxTtl : CallSet(k, v, ttl)
  \/ \E k \in Keys, v \in CacheValues : CallSet(k, v, DefaultTTL)
  \/ \E k \in Keys : CallGet(k)
  \/ \E k \in Keys : CallHas(k)
  \/ \E k \in Keys : CallDelete(k)
  \/ CallClear
  \/ CallClearExpired
  \/ CallGetStats

SpecCache == InitCache /\ [][NextCache]_vars

(***************************************************************************)
(* Article (src/models/Article.js)                                         *)
(***************************************************************************)
\* URLs are byte sequences (Buffer.from(url)); the model's URLs:
\* "https://example.com/"
UrlHost == <<104, 116, 116, 112, 115, 58, 47, 47, 101, 120, 97, 109, 112, 108, 101,
             46, 99, 111, 109, 47>>
\* "https://example.com/a"
Url_a == UrlHost \o <<97>>
\* "https://example.com/news/1"
Url_news1 == UrlHost \o <<110, 101, 119, 115, 47, 49>>
\* "https://example.com/news/2"
Url_news2 == UrlHost \o <<110, 101, 119, 115, 47, 50>>

URLs == {Url_a, Url_news1, Url_news2}

\* The base64 alphabet of Buffer.toString("base64")
B64Chars ==
  <<"A", "B", "C", "D", "E", "F", "G", "H", "I", "J", "K", "L", "M", "N", "O", "P",
    "Q", "R", "S", "T", "U", "V", "W", "X", "Y", "Z", "a", "b", "c", "d", "e", "f",
    "g", "h", "i", "j", "k", "l", "m", "n", "o", "p", "q", "r", "s", "t", "u", "v",
    "w", "x", "y", "z", "0", "1", "2", "3", "4", "5", "6", "7", "8", "9", "+", "/">>

B64(n) == B64Chars[n + 1]

\* Buffer.toString("base64"): three bytes give four characters, "=" pads the end
RECURSIVE Base64(_)
Base64(bytes) ==
  IF Len(bytes) = 0 THEN <<>>
  ELSE IF Len(bytes) = 1 THEN
    <<B64(bytes[1] \div 4), B64((bytes[1] % 4) * 16), "=", "=">>
  ELSE IF Len(bytes) = 2 THEN
    <<B64(bytes[1] \div 4), B64((bytes[1] % 4) * 16 + bytes[2] \div 16),
      B64((bytes[2] % 16) * 4), "=">>
  ELSE
    <<B64(bytes[1] \div 4), B64((bytes[1] % 4) * 16 + bytes[2] \div 16),
      B64((bytes[2] % 16) * 4 + bytes[3] \div 64), B64(bytes[3] % 64)>>
    \o Base64(SubSeq(bytes, 4, Len(bytes)))

\* substring(0, 32)
IdLength == 32

\* generateArticleId(url)
generateArticleId(url) == Take(Base64(url), IdLength)

\* The article payloads of the model; description, content, image, publishedAt
\* and source are copied exactly as title is
Articles ==
  {[url |-> Url_a, title |-> "t1"], [url |-> Url_news1, title |-> "t1"],
   [url |-> Url_news2, title |-> "t2"]}

\* The user ids and the ids given as a route parameter
UserIds == {1, 2}
IdOf == [url \in URLs |-> generateArticleId(url)]
RouteIds == {IdOf[Url_a], <<"x">>}

\* storeArticleMetadata(article) that stores whether or not the id has metadata
storeArticleMetadataOverwrite(meta, article, t) ==
  MapSet(meta, IdOf[article.url],
         [id |-> IdOf[article.url], url |-> article.url, title |-> article.title,
          cachedAt |-> t])

\* storeArticleMetadata(article) at time t: the metadata map afterwards
storeArticleMetadata(meta, article, t) ==
  LET articleId == IdOf[article.url]
  IN IF articleId \notin DOMAIN meta
     THEN MapSet(meta, articleId,
                 [id |-> articleId, url |-> article.url, title |-> article.title,
                  cachedAt |-> t])
     ELSE meta

\* "initialize if absent, then add" taking an id already present out again
AddReadToggle(reads, userId, articleId) ==
  MapSet(reads, userId,
         IF userId \in DOMAIN reads /\ articleId \in reads[userId]
         THEN reads[userId] \ {articleId}
         ELSE (IF userId \in DOMAIN reads THEN reads[userId] ELSE {}) \cup {articleId})

\* this.readArticles after "initialize if absent, then add"
AddRead(reads, userId, articleId) ==
  MapSet(reads, userId,
         (IF userId \in DOMAIN reads THEN reads[userId] ELSE {}) \cup {articleId})

\* the snapshot set in the favorites map of every user that has one
AddFavoriteEveryUser(favs, userId, articleId, snapshot) ==
  [u \in DOMAIN favs \cup {userId} |->
     MapSet(IF u \in DOMAIN favs THEN favs[u] ELSE EmptyMap, articleId, snapshot)]

\* this.favoriteArticles after "initialize if absent, then set"
AddFavorite(favs, userId, articleId, snapshot) ==
  MapSet(favs, userId,
         MapSet(IF userId \in DOMAIN favs THEN favs[userId] ELSE EmptyMap,
                articleId, snapshot))

\* {...metadata, favoritedAt}
Snapshot(metadata, t) ==
  [id |-> metadata.id, url |-> metadata.url, title |-> metadata.title,
   cachedAt |-> metadata.cachedAt, favoritedAt |-> t]

isRead(userId, articleId) ==
  userId \in DOMAIN readArticles /\ articleId \in readArticles[userId]

isFavorite(userId, articleId) ==
  userId \in DOMAIN favoriteArticles /\ articleId \in DOMAIN favoriteArticles[userId]

\* getReadArticles(userId): the metadata of the read ids that have metadata
getReadArticles(userId) ==
  IF userId \notin DOMAIN readArticles THEN {}
  ELSE {articleMetadata[id] : id \in readArticles[userId] \cap DOMAIN articleMetadata}

\* getFavoriteArticles(userId): the stored snapshots
getFavoriteArticles(userId) ==
  IF userId \notin DOMAIN favoriteArticles THEN {}
  ELSE {favoriteArticles[userId][id] : id \in DOMAIN favoriteArticles[userId]}

getUserStats(userId) ==
  [totalRead |-> IF userId \in DOMAIN readArticles
                 THEN Cardinality(readArticles[userId]) ELSE 0,
   totalFavorites |-> IF userId \in DOMAIN favoriteArticles
                      THEN Cardinality(DOMAIN favoriteArticles[userId]) ELSE 0,
   totalArticlesTracked |-> Cardinality(DOMAIN articleMetadata)]

\* lines 271-276 with age >= maxAge
TooOldInclusive(meta, maxAge, t) == {id \in DOMAIN meta : t - meta[id].cachedAt >= maxAge}

\* lines 271-276: the ids whose age exceeds maxAge
TooOld(meta, maxAge, t) == {id \in DOMAIN meta : t - meta[id].cachedAt > maxAge}

\* lines 279-286 scanning the favorites of the first user only
ProtectedFirstUserOnly(favs) == IF 1 \in DOMAIN favs THEN DOMAIN favs[1] ELSE {}

\* lines 279-286: the ids spliced out of toDelete, those of every user's favorites
Protected(favs) == UNION {DOMAIN favs[u] : u \in DOMAIN favs}

\* clearOldMetadata(maxAge) at time t: the ids deleted
clearOldMetadata(meta, favs, maxAge, t) == TooOld(meta, maxAge, t) \ Protected(favs)

CallMarkAsRead(userId, article) ==
  LET meta == storeArticleMetadata(articleMetadata, article, now)
      articleId == IdOf[article.url]
  IN /\ articleMetadata' = meta
     /\ readArticles' = AddRead(readArticles, userId, articleId)
     /\ ret' = [op |-> "markAsRead", userId |-> userId, url |-> article.url,
                articleId |-> articleId, at |-> now,
                already |-> isRead(userId, articleId)]
     /\ ncalls < MaxCalls /\ ncalls' = ncalls + 1
     /\ UNCHANGED <<now, cache, written, favoriteArticles, newsVars, jobVars, userVars>>

CallMarkAsReadById(userId, articleId) ==
  /\ readArticles' = AddRead(readArticles, userId, articleId)
  /\ ret' = [op |-> "markAsReadById", userId |-> userId, articleId |-> articleId,
             at |-> now, already |-> isRead(userId, articleId)]
  /\ ncalls < MaxCalls /\ ncalls' = ncalls + 1
  /\ UNCHANGED <<now, cache, written, articleMetadata, favoriteArticles, newsVars, jobVars, userVars>>

CallMarkAsFavorite(userId, article) ==
  LET meta == storeArticleMetadata(articleMetadata, article, now)
      articleId == IdOf[article.url]
  IN /\ articleMetadata' = meta
     /\ favoriteArticles' =
          AddFavorite(favoriteArticles, userId, articleId, Snapshot(meta[articleId], now))
     /\ ret' = [op |-> "markAsFavorite", userId |-> userId, url |-> article.url,
                articleId |-> articleId, at |-> now,
                already |-> isFavorite(userId, articleId)]
     /\ ncalls < MaxCalls /\ ncalls' = ncalls + 1
     /\ UNCHANGED <<now, cache, written, readArticles, newsVars, jobVars, userVars>>

CallMarkAsFavoriteById(userId, articleId) ==
  /\ favoriteArticles' =
       AddFavorite(favoriteArticles, userId, articleId,
                   IF articleId \in DOMAIN articleMetadata
                   THEN Snapshot(articleMetadata[articleId], now)
                   ELSE [id |-> articleId, favoritedAt |-> now])
  /\ ret' = [op |-> "markAsFavoriteById", userId |-> userId, articleId |-> articleId,
             at |-> now, already |-> isFavorite(userId, articleId)]
  /\ ncalls < MaxCalls /\ ncalls' = ncalls + 1
  /\ UNCHANGED <<now, cache, written, articleMetadata, readArticles, newsVars, jobVars, userVars>>

\* removeFavorite(userId, articleId) that reports the removal and removes nothing
removeFavoriteKeeps(favs, userId, articleId) ==
  [favorites |-> favs,
   removed |-> userId \in DOMAIN favs /\ articleId \in DOMAIN favs[userId]]

\* removeFavorite(userId, articleId) that returns true whatever it finds
removeFavoriteAlwaysTrue(favs, userId, articleId) ==
  [favorites |-> IF userId \notin DOMAIN favs THEN favs
                 ELSE MapSet(favs, userId, MapDelete(favs[userId], articleId)),
   removed |-> TRUE]

\* removeFavorite(userId, articleId): the favorites afterwards and the value
\* returned, that of Map.prototype.delete
removeFavorite(favs, userId, articleId) ==
  IF userId \notin DOMAIN favs THEN [favorites |-> favs, removed |-> FALSE]
  ELSE [favorites |-> MapSet(favs, userId, MapDelete(favs[userId], articleId)),
        removed |-> articleId \in DOMAIN favs[userId]]

CallRemoveFavorite(userId, articleId) ==
  /\ favoriteArticles' = removeFavorite(favoriteArticles, userId, articleId).favorites
  /\ ret' = [op |-> "removeFavorite", userId |-> userId, articleId |-> articleId,
             at |-> now,
             value |-> removeFavorite(favoriteArticles, userId, articleId).removed]
  /\ ncalls < MaxCalls /\ ncalls' = ncalls + 1
  /\ UNCHANGED <<now, cache, written, articleMetadata, readArticles, newsVars, jobVars, userVars>>

CallClearOldMetadata(maxAge) ==
  LET toDelete == clearOldMetadata(articleMetadata, favoriteArticles, maxAge, now)
  IN /\ articleMetadata' = [id \in DOMAIN articleMetadata \ toDelete |-> articleMetadata[id]]
     /\ ret' = [op |-> "clearOldMetadata", maxAge |-> maxAge, at |-> now,
                value |-> Cardinality(toDelete)]
     /\ ncalls < MaxCalls /\ ncalls' = ncalls + 1
     /\ UNCHANGED <<now, cache, written, readArticles, favoriteArticles, newsVars, jobVars, userVars>>

InitArticle ==
  /\ now = 0
  /\ cache = EmptyMap
  /\ written = EmptyMap
  /\ ret = [op |-> "none"]
  /\ articleMetadata = EmptyMap
  /\ readArticles = EmptyMap
  /\ favoriteArticles = EmptyMap
  /\ ncalls = 0
  /\ apiKey = Str_key
  /\ users = <<>>
  /\ direct = [s \in 1..MaxDirect |-> Idle]
  /\ pz = [c \in Callers |-> Idle]
  /\ jobs = JobsStopped
  /\ timers = [task \in Tasks |-> 0]
  /\ currentId = Len(users) + 1
  /\ reg = [slot \in 1..MaxRegister |-> Idle]

TickArticle ==
  /\ ncalls < MaxCalls /\ ncalls' = ncalls + 1
  /\ now' = now + 1
  /\ UNCHANGED <<cacheVars, articleMetadata, readArticles, favoriteArticles, newsVars, jobVars, userVars>>

NextArticle ==
  \/ TickArticle
  \/ \E u \in UserIds, a \in Articles : CallMarkAsRead(u, a)
  \/ \E u \in UserIds, id \in RouteIds : CallMarkAsReadById(u, id)
  \/ \E u \in UserIds, a \in Articles : CallMarkAsFavorite(u, a)
  \/ \E u \in UserIds, id \in RouteIds : CallMarkAsFavoriteById(u, id)
  \/ \E u \in UserIds, id \in RouteIds : CallRemoveFavorite(u, id)
  \/ \E maxAge \in 0..MaxAge : CallClearOldMetadata(maxAge)

SpecArticle == InitArticle /\ [][NextArticle]_vars

(***************************************************************************)
(* Input validation (src/utils/validation.js)                              *)
(***************************************************************************)
IsSpace(ch) == ch = " "

RECURSIVE TrimLeft(_)
TrimLeft(str) ==
  IF str # <<>> /\ IsSpace(Head(str)) THEN TrimLeft(Tail(str)) ELSE str

RECURSIVE TrimRight(_)
TrimRight(str) ==
  IF str # <<>> /\ IsSpace(str[Len(str)])
  THEN TrimRight(SubSeq(str, 1, Len(str) - 1)) ELSE str

\* String.prototype.trim
Trim(str) == TrimRight(TrimLeft(str))

\* replace(/<[^>]*>/g, ""): every "<" up to the next ">" is removed
RECURSIVE StripTags(_)
StripTags(str) ==
  IF str = <<>> THEN <<>>
  ELSE IF Head(str) = "<" /\ \E i \in 2..Len(str) : str[i] = ">"
  THEN LET close == CHOOSE i \in 2..Len(str) :
                      str[i] = ">" /\ \A j \in 2..(i - 1) : str[j] # ">"
       IN StripTags(SubSeq(str, close + 1, Len(str)))
  ELSE <<Head(str)>> \o StripTags(Tail(str))

MinQueryLength == 2
MaxQueryLength == 500
MaxInputLength == 1000

\* validateSearchQuery(query).isValid
validateSearchQuery(query) ==
  /\ query # Undefined
  /\ query # <<>>
  /\ Trim(query) # <<>>
  /\ Len(Trim(query)) >= MinQueryLength
  /\ Len(query) <= MaxQueryLength

\* sanitizeInput(input); the inputs of the model hold no <script> element
sanitizeInput(input) == Take(StripTags(Trim(input)), MaxInputLength)

\* req.query.q of the model: absent, "ai", " <b>ai ", "tv", "x"
RawQueries ==
  {Undefined, Str_ai, <<" ", "<", "b", ">">> \o Str_ai \o <<" ">>, Str_tv, <<"x">>}

\* validateSearchQuery(q) and sanitizeInput(q) of each request of the model
SearchRequests ==
  [raw \in RawQueries |->
     [isValid |-> validateSearchQuery(raw), query |-> sanitizeInput(raw)]]

(***************************************************************************)
(* The upstream provider (GNews), as axios sees it.                        *)
(***************************************************************************)
Art(url, title) == [url |-> url, title |-> title]

\* response.data of a successful call
Data_ai1 ==
  [totalArticles |-> 60,
   articles |-> <<Art("u1", "ai1"), Art("u2", "ai1"), Art("u3", "ai1"),
                  Art("u4", "ai1"), Art("u5", "ai1"), Art("u6", "ai1")>>]
Data_ai2 ==
  [totalArticles |-> 3,
   articles |-> <<Art("u2", "ai2"), Art("u1", "ai2"), Art("u2", "ai2b")>>]
Data_tv1 ==
  [totalArticles |-> 70,
   articles |-> <<Art("u5", "tv1"), Art("u6", "tv1"), Art("u7", "tv1"), Art("u8", "tv1"),
                  Art("u9", "tv1"), Art("u10", "tv1"), Art("u11", "tv1")>>]

Responses(query) ==
  IF query = Str_ai THEN {Data_ai1, Data_ai2}
  ELSE IF query = Str_tv THEN {Data_tv1}
  ELSE {}

\* what axios.get throws: the provider answered 4xx/5xx, or did not answer
\* within the 10 s timeout
AxiosErrors == {[kind |-> "response", status |-> 429], [kind |-> "request"]}

\* how a call to the provider ends
Outcomes(query) ==
  {[ok |-> TRUE, data |-> d] : d \in Responses(query)}
    \cup {[ok |-> FALSE, error |-> e] : e \in AxiosErrors}

(***************************************************************************)
(* NewsService (src/services/newsService.js)                               *)
(***************************************************************************)
\* this.cacheTTL: 5 minutes
CacheTTL == 1

isConfigured == apiKey # Undefined /\ apiKey # <<>> /\ apiKey # Str_placeholder

\* handleError(error) losing the provider's status
handleErrorAs500(error) == [status |-> 500, message |-> "Failed to fetch news"]

\* handleError(error)
handleError(error) ==
  IF error.kind = "response"
  THEN [status |-> error.status, isApiError |-> TRUE,
        message |-> CASE error.status = 400 -> "Invalid request to news API"
                      [] error.status = 401 -> "Invalid API key for news service"
                      [] error.status = 403 -> "Access forbidden to news API"
                      [] error.status = 429 -> "Rate limit exceeded for news API"
                      [] error.status = 500 -> "News API server error"
                      [] OTHER -> "News API error"]
  ELSE IF error.kind = "request"
  THEN [status |-> 503, isNetworkError |-> TRUE,
        message |-> "Unable to reach news API. Please try again later."]
  ELSE [status |-> 500, message |-> "Failed to fetch news"]

\* searchNews lines 23-33 at time t: the cache after the lookup and, on a hit,
\* {...cachedData, fromCache: true}
SearchLookup(c, query, t) ==
  LET r == CacheService_get(c, SearchKey(query), t)
  IN [cache |-> r.cache,
      hit |-> r.value # Null,
      result |-> IF r.value # Null
                 THEN [success |-> r.value.success, totalArticles |-> r.value.totalArticles,
                       articles |-> r.value.articles, fromCache |-> TRUE]
                 ELSE Null]

\* searchNews lines 47-51: the result built from the provider's response
SearchResult(data) ==
  [success |-> TRUE, totalArticles |-> data.totalArticles, articles |-> data.articles]

\* searchNews line 54 storing under a key that drops the query
SearchStoreNothing(c, query, data, t) == c

\* searchNews line 54: the cache after the result is stored
SearchStore(c, query, data, t) ==
  CacheService_set(c, SearchKey(query), SearchResult(data), CacheTTL, t)

(***************************************************************************)
(* newsController.searchNews: GET /news/search                             *)
(***************************************************************************)
NoRet == [op |-> "none"]

\* the response of the controller's catch block for a thrown error
ErrorStatus(err) ==
  IF "isApiError" \in DOMAIN err THEN err.status
  ELSE IF "isNetworkError" \in DOMAIN err THEN 503
  ELSE 500

\* res.status(200).json(...) of a search
SearchOk(slot, query, result, t) ==
  [op |-> "searchNews", slot |-> slot, query |-> query, status |-> 200,
   fromCache |-> IF "fromCache" \in DOMAIN result THEN result.fromCache ELSE FALSE,
   totalArticles |-> result.totalArticles, articles |-> result.articles, at |-> t]

\* The request arrives: lines 95-121 up to the call of the provider
HttpSearch(slot, raw) ==
  /\ direct[slot].pc = "idle"
  /\ IF ~isConfigured
     THEN /\ ret' = [op |-> "searchNews", slot |-> slot, status |-> 503, at |-> now]
          /\ UNCHANGED <<cache, direct>>
     ELSE IF ~SearchRequests[raw].isValid
     THEN /\ ret' = [op |-> "searchNews", slot |-> slot, status |-> 400, at |-> now]
          /\ UNCHANGED <<cache, direct>>
     ELSE LET query == SearchRequests[raw].query
              look == SearchLookup(cache, query, now)
          IN /\ cache' = look.cache
             /\ IF look.hit
                THEN /\ ret' = SearchOk(slot, query, look.result, now)
                     /\ UNCHANGED direct
                ELSE /\ ret' = NoRet
                     /\ direct' = [direct EXCEPT ![slot] =
                                     [pc |-> "wait", query |-> query, since |-> now]]
  /\ UNCHANGED <<now, written, articleVars, apiKey, users, pz, jobVars, userVars>>

\* The provider's answer (or the failure of the call) reaches the search
HttpSearchReply(slot, outcome) ==
  /\ direct[slot].pc = "wait"
  /\ outcome \in Outcomes(direct[slot].query)
  /\ direct' = [direct EXCEPT ![slot] = Idle]
  /\ IF outcome.ok
     THEN /\ cache' = SearchStore(cache, direct[slot].query, outcome.data, now)
          /\ ret' = SearchOk(slot, direct[slot].query, SearchResult(outcome.data), now)
     ELSE /\ ret' = [op |-> "searchNews", slot |-> slot, query |-> direct[slot].query,
                     status |-> ErrorStatus(handleError(outcome.error)),
                     message |-> handleError(outcome.error).message, at |-> now]
          /\ UNCHANGED cache
  /\ UNCHANGED <<now, written, articleVars, apiKey, users, pz, jobVars, userVars>>

(***************************************************************************)
(* NewsService.getPersonalizedNews                                         *)
(***************************************************************************)
\* const max = 10
MaxArticles == 10

\* lines 82-87 rethrowing instead of catching
TopicRethrow(err) == [thrown |-> TRUE, error |-> err]

\* lines 83-86: the .catch of one preference's search
TopicCatch(err) == [success |-> TRUE, articles |-> <<>>]

\* lines 81-88, the synchronous part of preferences.map(searchNews) at time t:
\* each search looks its key up in turn; a hit is settled, a miss calls the
\* provider.  Gives the cache afterwards and one entry per preference.
RECURSIVE StartSearches(_, _, _)
StartSearches(c, preferences, t) ==
  IF preferences = <<>> THEN [cache |-> c, entries |-> <<>>]
  ELSE LET look == SearchLookup(c, Head(preferences), t)
           rest == StartSearches(look.cache, Tail(preferences), t)
           entry == IF look.hit
                    THEN [st |-> "done", failed |-> FALSE, result |-> look.result]
                    ELSE [st |-> "pending"]
       IN [cache |-> rest.cache, entries |-> <<entry>> \o rest.entries]

PendingIn(entries) == {i \in DOMAIN entries : entries[i].st = "pending"}

\* the indices settled at the start, in preference order
RECURSIVE SettledOrder(_, _)
SettledOrder(entries, i) ==
  IF i > Len(entries) THEN <<>>
  ELSE (IF entries[i].st = "done" THEN <<i>> ELSE <<>>) \o SettledOrder(entries, i + 1)

\* results in the order in which the searches completed
ResultsByCompletion(entries, order) == [k \in DOMAIN order |-> entries[order[k]].result]

\* line 88, Promise.all: the results in the order of the preferences
ResultsOf(entries, order) == [i \in DOMAIN entries |-> entries[i].result]

\* lines 94-103: allArticles, filled in order, skipping the URLs already seen
RECURSIVE Dedup(_, _)
Dedup(articles, seenUrls) ==
  IF articles = <<>> THEN <<>>
  ELSE IF Head(articles).url \in seenUrls THEN Dedup(Tail(articles), seenUrls)
       ELSE <<Head(articles)>> \o Dedup(Tail(articles), seenUrls \cup {Head(articles).url})

\* line 106 without the limit
LimitNone(allArticles) == allArticles

\* line 106: allArticles.slice(0, max)
Limit(allArticles) == Take(allArticles, MaxArticles)

\* line 110: totalArticles
TotalArticles(allArticles, limitedArticles) == Len(limitedArticles)

\* lines 90-115: what getPersonalizedNews returns (or throws) for the settled results
CombineResults(results) ==
  IF \E i \in DOMAIN results : "thrown" \in DOMAIN results[i]
  THEN LET i == CHOOSE i \in DOMAIN results : "thrown" \in DOMAIN results[i]
       IN [thrown |-> TRUE,
           error |-> [status |-> 500, message |-> results[i].error.message]]
  ELSE LET allArticles == Dedup(Flatten([i \in DOMAIN results |-> results[i].articles]), {})
           limitedArticles == Limit(allArticles)
       IN [success |-> TRUE,
           totalArticles |-> TotalArticles(allArticles, limitedArticles),
           articles |-> limitedArticles]

(***************************************************************************)
(* User (src/unnamed/part_000) as the news flows read it                   *)
(***************************************************************************)
User(id, preferences) == [id |-> id, preferences |-> preferences]

\* findById(id): the position of the user in users, 0 when absent
findById(id) ==
  IF \E i \in DOMAIN users : users[i].id = id
  THEN CHOOSE i \in DOMAIN users : users[i].id = id /\ \A j \in 1..(i - 1) : users[j].id # id
  ELSE 0

\* req.user.id of the model: three stored users and one that is not stored
RequestUserIds == 1..4

(***************************************************************************)
(* newsController.getNews: GET /news                                       *)
(***************************************************************************)
\* what each search of a finished call fetched, for the record of the call
Fetched(entries) ==
  [i \in DOMAIN entries |->
     [failed |-> entries[i].failed,
      fromCache |-> "fromCache" \in DOMAIN entries[i].result,
      articles |-> IF entries[i].failed THEN <<>> ELSE entries[i].result.articles]]

\* the response of getNews for what getPersonalizedNews returned or threw
NewsResponse(userId, preferences, entries, order, t) ==
  LET newsData == CombineResults(ResultsOf(entries, order))
  IN IF "thrown" \in DOMAIN newsData
     THEN [op |-> "getNews", userId |-> userId, status |-> ErrorStatus(newsData.error),
           preferences |-> preferences, fetched |-> Fetched(entries),
           order |-> order, at |-> t]
     ELSE [op |-> "getNews", userId |-> userId, status |-> 200,
           success |-> newsData.success,
           fromCache |-> IF "fromCache" \in DOMAIN newsData THEN newsData.fromCache ELSE FALSE,
           preferences |-> preferences, totalArticles |-> newsData.totalArticles,
           articles |-> newsData.articles, fetched |-> Fetched(entries),
           order |-> order, at |-> t]

\* The request arrives: lines 9-40 up to the calls of the provider
HttpGetNews(userId) ==
  /\ pz["getNews"].pc = "idle"
  /\ IF ~isConfigured
     THEN /\ ret' = [op |-> "getNews", userId |-> userId, status |-> 503, at |-> now]
          /\ UNCHANGED <<cache, pz>>
     ELSE IF findById(userId) = 0
     THEN /\ ret' = [op |-> "getNews", userId |-> userId, status |-> 404, at |-> now]
          /\ UNCHANGED <<cache, pz>>
     ELSE IF users[findById(userId)].preferences = <<>>
     THEN /\ ret' = [op |-> "getNews", userId |-> userId, status |-> 400, at |-> now]
          /\ UNCHANGED <<cache, pz>>
     ELSE LET preferences == users[findById(userId)].preferences
              start == StartSearches(cache, preferences, now)
              order == SettledOrder(start.entries, 1)
          IN /\ cache' = start.cache
             /\ IF PendingIn(start.entries) = {}
                THEN /\ ret' = NewsResponse(userId, preferences, start.entries, order, now)
                     /\ UNCHANGED pz
                ELSE /\ ret' = NoRet
                     /\ pz' = [pz EXCEPT !["getNews"] =
                                 [pc |-> "wait", userId |-> userId,
                                  preferences |-> preferences, entries |-> start.entries,
                                  order |-> order, since |-> now]]
  /\ UNCHANGED <<now, written, articleVars, apiKey, users, direct, jobVars, userVars>>

\* The provider's answer (or the failure of the call) reaches the search of
\* preference i of the GET /news request; the last one completes the request
HttpGetNewsReply(i, outcome) ==
  LET call == pz["getNews"]
  IN /\ call.pc = "wait"
     /\ i \in PendingIn(call.entries)
     /\ outcome \in Outcomes(call.preferences[i])
     /\ LET entry == IF outcome.ok
                     THEN [st |-> "done", failed |-> FALSE,
                           result |-> SearchResult(outcome.data)]
                     ELSE [st |-> "done", failed |-> TRUE,
                           result |-> TopicCatch(handleError(outcome.error))]
            entries == [call.entries EXCEPT ![i] = entry]
            order == Append(call.order, i)
        IN /\ cache' = IF outcome.ok
                       THEN SearchStore(cache, call.preferences[i], outcome.data, now)
                       ELSE cache
           /\ IF PendingIn(entries) = {}
              THEN /\ ret' = NewsResponse(call.userId, call.preferences, entries, order, now)
                   /\ pz' = [pz EXCEPT !["getNews"] = Idle]
              ELSE /\ ret' = NoRet
                   /\ pz' = [pz EXCEPT !["getNews"] =
                               [call EXCEPT !.entries = entries, !.order = order]]
     /\ UNCHANGED <<now, written, articleVars, apiKey, users, direct, jobVars, userVars>>

\* the flows waiting for the provider
Pending ==
  {direct[s] : s \in {x \in DOMAIN direct : direct[x].pc = "wait"}}
    \cup {pz[c] : c \in {x \in Callers : pz[x].pc = "wait"}}

\* Time passes.  A call to the provider ends within its 10 s timeout, far less
\* than one unit of time: a call is never in flight across two ticks.
TickNews ==
  /\ now < MaxNewsTime
  /\ \A f \in Pending : f.since = now
  /\ now' = now + 1
  /\ ret' = NoRet
  /\ UNCHANGED <<cache, written, articleVars, newsVars, jobVars, userVars>>

AllOutcomes == UNION {Outcomes(q) : q \in Queries}

\* the stored users of the news flows
NewsUsers == <<User(1, <<Str_ai, Str_tv>>), User(2, <<Str_ai, Str_ai>>), User(3, <<>>)>>

\* the longest list of preferences
MaxPreferences == Len(NewsUsers[1].preferences)

InitNews ==
  /\ now = 0
  /\ cache = EmptyMap
  /\ written = EmptyMap
  /\ ret = NoRet
  /\ articleMetadata = EmptyMap
  /\ readArticles = EmptyMap
  /\ favoriteArticles = EmptyMap
  /\ ncalls = 0
  /\ apiKey \in {Str_key, Undefined, Str_placeholder}
  /\ users = NewsUsers
  /\ direct = [s \in 1..MaxDirect |-> Idle]
  /\ pz = [c \in Callers |-> Idle]
  /\ jobs = JobsStopped
  /\ timers = [task \in Tasks |-> 0]
  /\ currentId = Len(users) + 1
  /\ reg = [slot \in 1..MaxRegister |-> Idle]

NextNews ==
  \/ TickNews
  \/ \E slot \in 1..MaxDirect, raw \in RawQueries : HttpSearch(slot, raw)
  \/ \E slot \in 1..MaxDirect, outcome \in AllOutcomes : HttpSearchReply(slot, outcome)
  \/ \E userId \in RequestUserIds : HttpGetNews(userId)
  \/ \E i \in 1..MaxPreferences, outcome \in AllOutcomes : HttpGetNewsReply(i, outcome)

SpecNews == InitNews /\ [][NextNews]_vars

(***************************************************************************)
(* BackgroundJobService (src/unnamed/part_002)                             *)
(***************************************************************************)
\* start() without the isRunning guard of lines 26-29
startUnguarded(j, tm) ==
  [jobs |-> [isRunning |-> TRUE, intervals |-> [task \in Tasks |-> TRUE]],
   timers |-> [task \in Tasks |-> tm[task] + 1]]

\* start(config): the service and the armed timers afterwards.  setInterval
\* arms one more timer of the task; the handle stored replaces the one held.
start(j, tm) ==
  IF j.isRunning THEN [jobs |-> j, timers |-> tm]
  ELSE [jobs |-> [isRunning |-> TRUE, intervals |-> [task \in Tasks |-> TRUE]],
        timers |-> [task \in Tasks |-> tm[task] + 1]]

\* stop() that forgets the handles without clearInterval
stopWithoutClear(j, tm) ==
  IF ~j.isRunning THEN [jobs |-> j, timers |-> tm]
  ELSE [jobs |-> [isRunning |-> FALSE, intervals |-> [task \in Tasks |-> FALSE]],
        timers |-> tm]

\* stop(): clearInterval disarms the timer whose handle is held
stop(j, tm) ==
  IF ~j.isRunning THEN [jobs |-> j, timers |-> tm]
  ELSE [jobs |-> [isRunning |-> FALSE, intervals |-> [task \in Tasks |-> FALSE]],
        timers |-> [task \in Tasks |->
                      IF j.intervals[task] THEN tm[task] - 1 ELSE tm[task]]]

\* getStatus()
getStatus(j, c, t) ==
  [isRunning |-> j.isRunning,
   jobs |-> [task \in Tasks |-> j.intervals[task]],
   cacheStats |-> CacheService_getStats(c, t)]

\* users.slice(0, 10)
WarmBatchSize == 10

\* const maxAge = 7 * 24 * 60 * 60 * 1000, in units of 300 s
MetadataMaxAge == 2016

\* updateUserPreferencesCache lines 106-117 at time t, from user idx of the
\* batch on: users without preferences are skipped, a user whose searches are
\* all answered by the cache is finished at once, and the loop waits at the
\* first user with a search that calls the provider
RECURSIVE WarmAdvance(_, _, _, _)
WarmAdvance(c, batch, idx, t) ==
  IF idx > Len(batch) THEN [cache |-> c, call |-> Idle]
  ELSE IF batch[idx].preferences = <<>> THEN WarmAdvance(c, batch, idx + 1, t)
  ELSE LET startd == StartSearches(c, batch[idx].preferences, t)
       IN IF PendingIn(startd.entries) = {}
          THEN WarmAdvance(startd.cache, batch, idx + 1, t)
          ELSE [cache |-> startd.cache,
                call |-> [pc |-> "wait", batch |-> batch, idx |-> idx,
                          userId |-> batch[idx].id,
                          preferences |-> batch[idx].preferences,
                          entries |-> startd.entries,
                          order |-> SettledOrder(startd.entries, 1), since |-> t]]

JobsStart ==
  /\ jobs' = start(jobs, timers).jobs
  /\ timers' = start(jobs, timers).timers
  /\ ret' = [op |-> "start", wasRunning |-> jobs.isRunning]
  /\ UNCHANGED <<now, cache, written, articleVars, newsVars, userVars>>

JobsStop ==
  /\ jobs' = stop(jobs, timers).jobs
  /\ timers' = stop(jobs, timers).timers
  /\ ret' = [op |-> "stop", wasRunning |-> jobs.isRunning]
  /\ UNCHANGED <<now, cache, written, articleVars, newsVars, userVars>>

JobsGetStatus ==
  /\ ret' = [op |-> "getStatus", value |-> getStatus(jobs, cache, now)]
  /\ UNCHANGED <<now, cache, written, articleVars, newsVars, jobVars, userVars>>

\* FireCacheUpdate going through every stored user
FireCacheUpdateAllUsers ==
  /\ timers["cacheUpdate"] > 0
  /\ pz["warm"].pc = "idle"
  /\ LET run == WarmAdvance(cache, users, 1, now)
     IN /\ cache' = run.cache
        /\ pz' = [pz EXCEPT !["warm"] = run.call]
  /\ ret' = [op |-> "updatePopularNewsCache", at |-> now]
  /\ UNCHANGED <<now, written, articleVars, apiKey, users, direct, jobVars, userVars>>

\* The cacheUpdate timer fires: updatePopularNewsCache.  With the intervals of
\* server.js a cycle has ended (10 users, 10 s timeout) before the next one.
FireCacheUpdate ==
  /\ timers["cacheUpdate"] > 0
  /\ pz["warm"].pc = "idle"
  /\ LET run == WarmAdvance(cache, Take(users, WarmBatchSize), 1, now)
     IN /\ cache' = run.cache
        /\ pz' = [pz EXCEPT !["warm"] = run.call]
  /\ ret' = [op |-> "updatePopularNewsCache", at |-> now]
  /\ UNCHANGED <<now, written, articleVars, apiKey, users, direct, jobVars, userVars>>

\* WarmReply in which a failed call escapes the callback and ends the timers
WarmReplyFailureStops(i, outcome) ==
  LET call == pz["warm"]
  IN /\ call.pc = "wait"
     /\ i \in PendingIn(call.entries)
     /\ outcome \in Outcomes(call.preferences[i])
     /\ LET entry == IF outcome.ok
                     THEN [st |-> "done", failed |-> FALSE,
                           result |-> SearchResult(outcome.data)]
                     ELSE [st |-> "done", failed |-> TRUE,
                           result |-> TopicCatch(handleError(outcome.error))]
            entries == [call.entries EXCEPT ![i] = entry]
            stored == IF outcome.ok
                      THEN SearchStore(cache, call.preferences[i], outcome.data, now)
                      ELSE cache
        IN IF ~outcome.ok
           THEN /\ cache' = stored
                /\ pz' = [pz EXCEPT !["warm"] = Idle]
                /\ ret' = [op |-> "warmUser", userId |-> call.userId,
                           fetched |-> <<[failed |-> TRUE, fromCache |-> FALSE,
                                         articles |-> <<>>]>>,
                           at |-> now]
                /\ jobs' = JobsStopped
                /\ timers' = [task \in Tasks |-> 0]
           ELSE IF PendingIn(entries) = {}
           THEN LET run == WarmAdvance(stored, call.batch, call.idx + 1, now)
                IN /\ cache' = run.cache
                   /\ pz' = [pz EXCEPT !["warm"] = run.call]
                   /\ ret' = [op |-> "warmUser", userId |-> call.userId,
                              fetched |-> Fetched(entries), at |-> now]
                   /\ UNCHANGED jobVars
           ELSE /\ cache' = stored
                /\ pz' = [pz EXCEPT !["warm"] =
                            [call EXCEPT !.entries = entries,
                                         !.order = Append(call.order, i)]]
                /\ ret' = NoRet
                /\ UNCHANGED jobVars
     /\ UNCHANGED <<now, written, articleVars, apiKey, users, direct, userVars>>

\* The provider's answer (or the failure of the call) reaches the search of
\* preference i of the user the cache-warm task is at; the last one ends that
\* user's getPersonalizedNews and the loop goes on
WarmReply(i, outcome) ==
  LET call == pz["warm"]
  IN /\ call.pc = "wait"
     /\ i \in PendingIn(call.entries)
     /\ outcome \in Outcomes(call.preferences[i])
     /\ LET entry == IF outcome.ok
                     THEN [st |-> "done", failed |-> FALSE,
                           result |-> SearchResult(outcome.data)]
                     ELSE [st |-> "done", failed |-> TRUE,
                           result |-> TopicCatch(handleError(outcome.error))]
            entries == [call.entries EXCEPT ![i] = entry]
            stored == IF outcome.ok
                      THEN SearchStore(cache, call.preferences[i], outcome.data, now)
                      ELSE cache
        IN IF PendingIn(entries) = {}
           THEN LET run == WarmAdvance(stored, call.batch, call.idx + 1, now)
                IN /\ cache' = run.cache
                   /\ pz' = [pz EXCEPT !["warm"] = run.call]
                   /\ ret' = [op |-> "warmUser", userId |-> call.userId,
                              fetched |-> Fetched(entries), at |-> now]
           ELSE /\ cache' = stored
                /\ pz' = [pz EXCEPT !["warm"] =
                            [call EXCEPT !.entries = entries,
                                         !.order = Append(call.order, i)]]
                /\ ret' = NoRet
     /\ UNCHANGED <<now, written, articleVars, apiKey, users, direct, jobVars, userVars>>

\* The cacheCleanup timer fires: cleanupCache
FireCacheCleanup ==
  /\ timers["cacheCleanup"] > 0
  /\ cache' = CacheService_clearExpired(cache, now)
  /\ ret' = [op |-> "cleanupCache", at |-> now, before |-> Cardinality(DOMAIN cache),
             stats |-> CacheService_getStats(CacheService_clearExpired(cache, now), now)]
  /\ UNCHANGED <<now, written, articleVars, newsVars, jobVars, userVars>>

\* The articleCleanup timer fires: cleanupOldArticles
FireArticleCleanup ==
  /\ timers["articleCleanup"] > 0
  /\ LET toDelete == clearOldMetadata(articleMetadata, favoriteArticles, MetadataMaxAge, now)
     IN /\ articleMetadata' =
             [id \in DOMAIN articleMetadata \ toDelete |-> articleMetadata[id]]
        /\ ret' = [op |-> "cleanupOldArticles", at |-> now, value |-> Cardinality(toDelete)]
  /\ UNCHANGED <<now, cache, written, readArticles, favoriteArticles, ncalls, newsVars, jobVars, userVars>>

InitJobs ==
  /\ now = 0
  /\ cache = EmptyMap
  /\ written = EmptyMap
  /\ ret = NoRet
  /\ articleMetadata = EmptyMap
  /\ readArticles = EmptyMap
  /\ favoriteArticles = EmptyMap
  /\ ncalls = 0
  /\ apiKey \in {Str_key, Undefined}
  /\ users = NewsUsers
  /\ direct = [s \in 1..MaxDirect |-> Idle]
  /\ pz = [c \in Callers |-> Idle]
  /\ jobs = JobsStopped
  /\ timers = [task \in Tasks |-> 0]
  /\ currentId = Len(users) + 1
  /\ reg = [slot \in 1..MaxRegister |-> Idle]

NextJobs ==
  \/ TickNews
  \/ JobsStart
  \/ JobsStop
  \/ JobsGetStatus
  \/ FireCacheUpdate
  \/ \E i \in 1..MaxPreferences, outcome \in AllOutcomes : WarmReply(i, outcome)
  \/ FireCacheCleanup
  \/ FireArticleCleanup

SpecJobs == InitJobs /\ [][NextJobs]_vars

\* FireCacheUpdate can happen and change the state
CanFireCacheUpdate ==
  /\ timers["cacheUpdate"] > 0
  /\ pz["warm"].pc = "idle"
  /\ LET run == WarmAdvance(cache, Take(users, WarmBatchSize), 1, now)
     IN \/ run.cache # cache
        \/ run.call # pz["warm"]
        \/ ret # [op |-> "updatePopularNewsCache", at |-> now]

\* An armed interval timer fires again and again, and a call to the provider
\* ends within its 10 s timeout: weak fairness of the three timers and of the
\* replies.  For FireCacheUpdate and WarmReply the condition WF_vars is
\* written out, with the state predicate that says when the action is enabled
\* (a pending call can always be answered, and the answer changes the call).
SpecJobsFair ==
  /\ SpecJobs
  /\ WF_vars(FireCacheCleanup)
  /\ WF_vars(FireArticleCleanup)
  /\ ([]<>~CanFireCacheUpdate \/ []<><<FireCacheUpdate>>_vars)
  /\ \/ []<>(pz["warm"].pc # "wait")
     \/ []<><<\E i \in 1..MaxPreferences, outcome \in AllOutcomes :
                WarmReply(i, outcome)>>_vars

(***************************************************************************)
(* The cache-warm task with more stored users than its batch               *)
(***************************************************************************)
\* One user more than the batch; the first, the tenth and the eleventh have
\* preferences
WarmUsers ==
  [i \in 1..(WarmBatchSize + 1) |->
     User(i, IF i = 1 THEN <<Str_ai>>
             ELSE IF i = WarmBatchSize THEN <<Str_tv>>
             ELSE IF i = WarmBatchSize + 1 THEN <<Str_tv, Str_ai>>
             ELSE <<>>)]

InitWarm ==
  /\ now = 0
  /\ cache = EmptyMap
  /\ written = EmptyMap
  /\ ret = NoRet
  /\ articleMetadata = EmptyMap
  /\ readArticles = EmptyMap
  /\ favoriteArticles = EmptyMap
  /\ ncalls = 0
  /\ apiKey = Str_key
  /\ users = WarmUsers
  /\ direct = [s \in 1..MaxDirect |-> Idle]
  /\ pz = [c \in Callers |-> Idle]
  /\ jobs = JobsStopped
  /\ timers = [task \in Tasks |-> 0]
  /\ currentId = Len(WarmUsers) + 1
  /\ reg = [slot \in 1..MaxRegister |-> Idle]

NextWarm ==
  \/ TickNews
  \/ JobsStart
  \/ JobsStop
  \/ FireCacheUpdate
  \/ \E i \in 1..MaxPreferences, outcome \in AllOutcomes : WarmReply(i, outcome)
  \/ FireCacheCleanup

SpecWarm == InitWarm /\ [][NextWarm]_vars

(***************************************************************************)
(* User (src/unnamed/part_000), registration and preferences               *)
(* (src/unnamed/part_005)                                                  *)
(***************************************************************************)
UpperCase ==
  <<"A", "B", "C", "D", "E", "F", "G", "H", "I", "J", "K", "L", "M",
    "N", "O", "P", "Q", "R", "S", "T", "U", "V", "W", "X", "Y", "Z">>
LowerCase ==
  <<"a", "b", "c", "d", "e", "f", "g", "h", "i", "j", "k", "l", "m",
    "n", "o", "p", "q", "r", "s", "t", "u", "v", "w", "x", "y", "z">>

\* String.prototype.toLowerCase
toLowerCase(str) ==
  [i \in DOMAIN str |->
     IF \E k \in DOMAIN UpperCase : UpperCase[k] = str[i]
     THEN LowerCase[CHOOSE k \in DOMAIN UpperCase : UpperCase[k] = str[i]]
     ELSE str[i]]

\* A JSON value of a request body: undefined, a string, or an array of strings
JsUndefined == [type |-> "undefined", items |-> <<>>]
JsString == [type |-> "string", items |-> <<>>]
JsArray(items) == [type |-> "array", items |-> items]

\* isValidEmail(email): /^[^\s@]+@[^\s@]+\.[^\s@]+$/ on the trimmed email
isValidEmail(email) ==
  LET e == Trim(email)
  IN \E i \in DOMAIN e :
       /\ e[i] = "@"
       /\ i > 1
       /\ \A k \in DOMAIN e \ {i} : e[k] # "@" /\ ~IsSpace(e[k])
       /\ \E j \in DOMAIN e : j > i + 1 /\ j < Len(e) /\ e[j] = "."

MinPasswordLength == 6
MinNameLength == 2
MaxNameLength == 100

isValidPassword(password) == Len(password) >= MinPasswordLength

isValidName(name) ==
  Len(Trim(name)) >= MinNameLength /\ Len(Trim(name)) <= MaxNameLength

\* validateRegistration({ email, password, name }).isValid
validateRegistration(data) ==
  /\ data.email # Undefined /\ data.email # <<>> /\ Trim(data.email) # <<>>
  /\ isValidEmail(data.email)
  /\ data.password # Undefined /\ data.password # <<>>
  /\ isValidPassword(data.password)
  /\ data.name # Undefined /\ data.name # <<>> /\ Trim(data.name) # <<>>
  /\ isValidName(data.name)

MaxPreferencesAllowed == 50
MaxPreferenceLength == 100

\* validatePreferences(preferences).isValid
validatePreferences(preferences) ==
  /\ preferences.type # "undefined"
  /\ preferences.type = "array"
  /\ Len(preferences.items) <= MaxPreferencesAllowed
  /\ \A i \in DOMAIN preferences.items :
       /\ Trim(preferences.items[i]) # <<>>
       /\ Len(preferences.items[i]) <= MaxPreferenceLength

\* the list with its duplicates kept
UniqueKeepsAll(list) == list

\* [...new Set(list)]: the first occurrence of each value, in order
RECURSIVE Unique(_)
Unique(list) ==
  IF list = <<>> THEN <<>>
  ELSE LET front == Unique(SubSeq(list, 1, Len(list) - 1))
           last == list[Len(list)]
       IN IF last \in Range(front) THEN front ELSE Append(front, last)

\* lines 195-197: trim, lower-case, drop the empty strings
NormalizePreferences(items) ==
  LET mapped == [i \in DOMAIN items |-> toLowerCase(Trim(items[i]))]
  IN Flatten([i \in DOMAIN mapped |-> IF Len(mapped[i]) > 0 THEN <<mapped[i]>> ELSE <<>>])

\* findByEmail(email): the position of the first user with the email, 0 if none
findByEmail(us, email) ==
  IF \E i \in DOMAIN us : us[i].email = email
  THEN CHOOSE i \in DOMAIN us : us[i].email = email /\ \A j \in 1..(i - 1) : us[j].email # email
  ELSE 0

\* hashPassword(password), of the bcrypt utility: an opaque digest
hashPassword(password) == <<"$2">> \o password

\* create(userData) at time t with this.currentId = id: this.users afterwards
create(us, id, userData, t) ==
  Append(us, [id |-> id, email |-> userData.email, password |-> userData.password,
              name |-> userData.name, preferences |-> userData.preferences,
              createdAt |-> t, updatedAt |-> t])

\* update(id, { preferences }) at time t: this.users afterwards
update(us, id, preferences, t) ==
  [i \in DOMAIN us |->
     IF us[i].id = id /\ \A j \in 1..(i - 1) : us[j].id # id
     THEN [us[i] EXCEPT !.preferences = preferences, !.updatedAt = t]
     ELSE us[i]]

\* lines 25-26: UserModel.findByEmail(email.toLowerCase().trim()) finds a user
EmailTaken(us, email) == findByEmail(us, Trim(toLowerCase(email))) # 0

\* POST /auth/register up to await hashPassword(password)
HttpRegister(slot, body) ==
  /\ reg[slot].pc = "idle"
  \* the model stops accepting registrations at MaxUsers users
  /\ Len(users) + Cardinality({s \in DOMAIN reg : reg[s].pc = "hash"}) < MaxUsers
  /\ IF ~validateRegistration(body)
     THEN /\ ret' = [op |-> "register", slot |-> slot, status |-> 400]
          /\ UNCHANGED reg
     ELSE IF EmailTaken(users, body.email)
     THEN /\ ret' = [op |-> "register", slot |-> slot, status |-> 409,
                     email |-> Trim(toLowerCase(body.email))]
          /\ UNCHANGED reg
     ELSE /\ ret' = NoRet
          /\ reg' = [reg EXCEPT ![slot] = [pc |-> "hash", body |-> body]]
  /\ UNCHANGED <<now, cache, written, articleVars, newsVars, jobVars, currentId>>

\* hashPassword has resolved: lines 36-58
HttpRegisterHashed(slot) ==
  /\ reg[slot].pc = "hash"
  /\ LET body == reg[slot].body
         userData == [email |-> Trim(toLowerCase(body.email)),
                      password |-> hashPassword(body.password),
                      name |-> Trim(body.name),
                      preferences |-> body.preferences.items]
     IN /\ users' = create(users, currentId, userData, now)
        /\ ret' = [op |-> "register", slot |-> slot, status |-> 201, id |-> currentId,
                   email |-> userData.email, preferences |-> userData.preferences]
  /\ currentId' = currentId + 1
  /\ reg' = [reg EXCEPT ![slot] = Idle]
  /\ UNCHANGED <<now, cache, written, articleVars, apiKey, direct, pz, jobVars>>

(***************************************************************************)
(* authenticate (src/unnamed/part_003)                                     *)
(***************************************************************************)
\* req.headers.authorization and what verifyToken does with its token: the
\* header is absent, or has a scheme and a token; verifyToken throws the
\* named error or returns a payload, whose userId is 0 when it has none
Header(authorization, token, verify, userId) ==
  [authorization |-> authorization, token |-> token, verify |-> verify, userId |-> userId]

NoHeader == Header("absent", "", "none", 0)

Bearer(userId) == Header("Bearer", "jwt", "decoded", userId)

\* the headers that carry no valid token
BadHeaders ==
  {NoHeader, Header("Basic", "jwt", "none", 0), Header("Bearer", "", "none", 0),
   Header("Bearer", "jwt", "TokenExpiredError", 0),
   Header("Bearer", "jwt", "JsonWebTokenError", 0),
   Header("Bearer", "jwt", "Error", 0), Bearer(0)}

\* authenticate that attaches the token's userId without looking the user up
authenticateUnchecked(header) ==
  IF header.authorization = "Bearer" /\ header.verify = "decoded" /\ header.userId # 0
  THEN [ok |-> TRUE, id |-> header.userId]
  ELSE [ok |-> FALSE, status |-> 401, error |-> "INVALID_TOKEN"]

\* authenticate(req, res, next): next() with req.user, or the 401 sent
authenticate(header) ==
  LET Fail(error) == [ok |-> FALSE, status |-> 401, error |-> error]
  IN IF header.authorization = "absent" THEN Fail("MISSING_TOKEN")
     ELSE IF header.authorization # "Bearer" THEN Fail("INVALID_TOKEN_FORMAT")
     ELSE IF header.token = "" THEN Fail("EMPTY_TOKEN")
     ELSE IF header.verify = "TokenExpiredError" THEN Fail("TOKEN_EXPIRED")
     ELSE IF header.verify = "JsonWebTokenError" THEN Fail("INVALID_TOKEN")
     ELSE IF header.verify # "decoded" THEN Fail("AUTHENTICATION_ERROR")
     ELSE IF header.userId = 0 THEN Fail("INVALID_TOKEN_PAYLOAD")
     ELSE IF findById(header.userId) = 0 THEN Fail("USER_NOT_FOUND")
     ELSE [ok |-> TRUE, id |-> header.userId]

\* the 401 of authenticate: the handler of the route does not run
Reject(auth) ==
  /\ ret' = [op |-> "authenticate", status |-> auth.status, error |-> auth.error]
  /\ UNCHANGED <<now, cache, written, articleVars, newsVars, jobVars, userVars>>

(***************************************************************************)
(* articleController (src/unnamed/part_004) behind authenticate            *)
(***************************************************************************)
\* POST /news/:id/read
ApiMarkAsRead(header, id) ==
  LET auth == authenticate(header)
  IN IF ~auth.ok THEN Reject(auth)
     ELSE /\ readArticles' = AddRead(readArticles, auth.id, id)
          /\ ret' = [op |-> "POST /news/:id/read", status |-> 200, userId |-> auth.id,
                     articleId |-> id, markedAt |-> now]
          /\ UNCHANGED <<now, cache, written, articleMetadata, favoriteArticles, ncalls,
                         newsVars, jobVars, userVars>>

\* GET /news/read
ApiGetReadArticles(header) ==
  LET auth == authenticate(header)
  IN IF ~auth.ok THEN Reject(auth)
     ELSE /\ ret' = [op |-> "GET /news/read", status |-> 200, userId |-> auth.id,
                     totalRead |-> Cardinality(getReadArticles(auth.id)),
                     articles |-> getReadArticles(auth.id)]
          /\ UNCHANGED <<now, cache, written, articleVars, newsVars, jobVars, userVars>>

\* POST /news/:id/favorite
ApiMarkAsFavorite(header, id) ==
  LET auth == authenticate(header)
  IN IF ~auth.ok THEN Reject(auth)
     ELSE /\ favoriteArticles' =
               AddFavorite(favoriteArticles, auth.id, id,
                           IF id \in DOMAIN articleMetadata
                           THEN Snapshot(articleMetadata[id], now)
                           ELSE [id |-> id, favoritedAt |-> now])
          /\ ret' = [op |-> "POST /news/:id/favorite", status |-> 200, userId |-> auth.id,
                     articleId |-> id, favoritedAt |-> now]
          /\ UNCHANGED <<now, cache, written, articleMetadata, readArticles, ncalls,
                         newsVars, jobVars, userVars>>

\* DELETE /news/:id/favorite
ApiRemoveFavorite(header, id) ==
  LET auth == authenticate(header)
  IN IF ~auth.ok THEN Reject(auth)
     ELSE LET call == removeFavorite(favoriteArticles, auth.id, id)
          IN /\ favoriteArticles' = call.favorites
             /\ ret' = [op |-> "DELETE /news/:id/favorite",
                        status |-> IF call.removed THEN 200 ELSE 404,
                        userId |-> auth.id, articleId |-> id, removed |-> call.removed]
             /\ UNCHANGED <<now, cache, written, articleMetadata, readArticles, ncalls,
                            newsVars, jobVars, userVars>>

\* GET /news/favorites
ApiGetFavoriteArticles(header) ==
  LET auth == authenticate(header)
  IN IF ~auth.ok THEN Reject(auth)
     ELSE /\ ret' = [op |-> "GET /news/favorites", status |-> 200, userId |-> auth.id,
                     totalFavorites |-> Cardinality(getFavoriteArticles(auth.id)),
                     articles |-> getFavoriteArticles(auth.id)]
          /\ UNCHANGED <<now, cache, written, articleVars, newsVars, jobVars, userVars>>

\* GET /news/stats
ApiGetArticleStats(header) ==
  LET auth == authenticate(header)
  IN IF ~auth.ok THEN Reject(auth)
     ELSE /\ ret' = [op |-> "GET /news/stats", status |-> 200, userId |-> auth.id,
                     data |-> getUserStats(auth.id)]
          /\ UNCHANGED <<now, cache, written, articleVars, newsVars, jobVars, userVars>>

\* hashPassword has rejected: the catch block of lines 59-66
HttpRegisterHashFails(slot) ==
  /\ reg[slot].pc = "hash"
  /\ ret' = [op |-> "register", slot |-> slot, status |-> 500]
  /\ reg' = [reg EXCEPT ![slot] = Idle]
  /\ UNCHANGED <<now, cache, written, articleVars, newsVars, jobVars, currentId>>

(***************************************************************************)
(* preferencesController (src/unnamed/part_005) behind authenticate        *)
(***************************************************************************)
\* GET /users/preferences
ApiGetPreferences(header) ==
  LET auth == authenticate(header)
  IN IF ~auth.ok THEN Reject(auth)
     ELSE /\ ret' = IF findById(auth.id) = 0
                    THEN [op |-> "GET /users/preferences", status |-> 404,
                          userId |-> auth.id]
                    ELSE [op |-> "GET /users/preferences", status |-> 200,
                          userId |-> auth.id,
                          preferences |-> users[findById(auth.id)].preferences]
          /\ UNCHANGED <<now, cache, written, articleVars, newsVars, jobVars, userVars>>

\* PUT /users/preferences
ApiUpdatePreferences(header, preferences) ==
  LET auth == authenticate(header)
  IN IF ~auth.ok THEN Reject(auth)
     ELSE IF ~validatePreferences(preferences)
     THEN /\ ret' = [op |-> "PUT /users/preferences", status |-> 400, userId |-> auth.id]
          /\ UNCHANGED <<now, cache, written, articleVars, newsVars, jobVars, userVars>>
     ELSE LET uniquePreferences == Unique(NormalizePreferences(preferences.items))
          IN IF Len(uniquePreferences) = 0
             THEN /\ ret' = [op |-> "PUT /users/preferences", status |-> 400,
                             userId |-> auth.id]
                  /\ UNCHANGED <<now, cache, written, articleVars, newsVars, jobVars, userVars>>
             ELSE /\ users' = update(users, auth.id, uniquePreferences, now)
                  /\ ret' = IF findById(auth.id) = 0
                            THEN [op |-> "PUT /users/preferences", status |-> 404,
                                  userId |-> auth.id]
                            ELSE [op |-> "PUT /users/preferences", status |-> 200,
                                  userId |-> auth.id, preferences |-> uniquePreferences]
                  /\ UNCHANGED <<now, cache, written, articleVars, apiKey, direct, pz,
                                 jobVars, userVars>>

(***************************************************************************)
(* Accounts: registrations and preference updates                          *)
(***************************************************************************)
Str_email1 == <<"a", "@", "b", ".", "c">>
Str_email2 == <<"z", "@", "b", ".", "c">>
Str_password == <<"s", "e", "c", "r", "e", "t">>
Str_name == <<"J", "o">>

\* req.body of POST /auth/register; its preferences are absent or pass
\* validatePreferences
Registration(email, password, preferences) ==
  [email |-> email, password |-> password, name |-> Str_name, preferences |-> preferences]

RegisterBodies ==
  {Registration(Str_email1, Str_password, JsUndefined),
   Registration(<<" ", "A">> \o Tail(Str_email1), Str_password, JsArray(<<Str_ai, Str_tv>>)),
   Registration(Str_email2, Str_password, JsArray(<<Str_ai, Str_ai>>)),
   Registration(Undefined, Str_password, JsUndefined),
   Registration(<<"a", "b">>, Str_password, JsUndefined),
   Registration(Str_email2, <<"s">>, JsUndefined)}

\* req.body.preferences of PUT /users/preferences: absent, not an array, [],
\* [" AI", "tv", "ai "], ["tv"], ["  "], and a list of 51 items
PreferenceBodies ==
  {JsUndefined, JsString, JsArray(<<>>),
   JsArray(<< <<" ", "A", "I">>, Str_tv, Str_ai \o <<" ">> >>),
   JsArray(<<Str_tv>>), JsArray(<< <<" ", " ">> >>),
   JsArray([i \in 1..(MaxPreferencesAllowed + 1) |-> Str_ai])}

\* the userId of the tokens presented: two users that register first, and one
\* that never registers
TokenUserIds == {1, 2, 9}

\* the Authorization headers presented: none, and the tokens of these users
UserHeaders == {NoHeader} \cup {Bearer(u) : u \in TokenUserIds}

InitUsers ==
  /\ now = 0
  /\ cache = EmptyMap
  /\ written = EmptyMap
  /\ ret = NoRet
  /\ articleMetadata = EmptyMap
  /\ readArticles = EmptyMap
  /\ favoriteArticles = EmptyMap
  /\ ncalls = 0
  /\ apiKey = Str_key
  /\ users = <<>>
  /\ direct = [s \in 1..MaxDirect |-> Idle]
  /\ pz = [c \in Callers |-> Idle]
  /\ jobs = JobsStopped
  /\ timers = [task \in Tasks |-> 0]
  /\ currentId = 1
  /\ reg = [slot \in 1..MaxRegister |-> Idle]

NextUsers ==
  \/ \E slot \in 1..MaxRegister, body \in RegisterBodies : HttpRegister(slot, body)
  \/ \E slot \in 1..MaxRegister : HttpRegisterHashed(slot)
  \/ \E slot \in 1..MaxRegister : HttpRegisterHashFails(slot)
  \/ \E header \in UserHeaders : ApiGetPreferences(header)
  \/ \E header \in UserHeaders, preferences \in PreferenceBodies :
       ApiUpdatePreferences(header, preferences)

SpecUsers == InitUsers /\ [][NextUsers]_vars

(***************************************************************************)
(* The protected routes (src/routes/newsRoutes.js, userRoutes.js)          *)
(***************************************************************************)
\* GET /news
ApiGetNews(header) ==
  LET auth == authenticate(header)
  IN IF ~auth.ok THEN Reject(auth) ELSE HttpGetNews(auth.id)

\* GET /news/search
ApiSearchNews(header, slot, raw) ==
  LET auth == authenticate(header)
  IN IF ~auth.ok THEN Reject(auth) ELSE HttpSearch(slot, raw)

\* two users registered with preferences
ApiUsers ==
  create(create(<<>>, 1,
                [email |-> Str_email1, password |-> hashPassword(Str_password),
                 name |-> Str_name, preferences |-> <<Str_ai, Str_tv>>], 0),
         2,
         [email |-> Str_email2, password |-> hashPassword(Str_password),
          name |-> Str_name, preferences |-> <<Str_tv>>], 0)

\* the Authorization headers of the model: those without a valid token, the
\* token of user 1 and a valid token of a user that is not stored
ApiHeaders == BadHeaders \cup {Bearer(1), Bearer(9)}

\* req.body.preferences of PUT /users/preferences on these routes
ApiPreferenceBodies == {JsUndefined, JsArray(<<Str_tv, Str_tv>>)}

\* User 2 has marked and favorited the id "x" before.  No provider key is
\* configured: the news handlers, once reached, answer 503; their flows with
\* a key are those of SpecNews.
InitApi ==
  /\ now = 0
  /\ cache = EmptyMap
  /\ written = EmptyMap
  /\ ret = NoRet
  /\ articleMetadata = EmptyMap
  /\ readArticles = MapSet(EmptyMap, 2, {<<"x">>})
  /\ favoriteArticles =
       AddFavorite(EmptyMap, 2, <<"x">>, [id |-> <<"x">>, favoritedAt |-> 0])
  /\ ncalls = 0
  /\ apiKey = Undefined
  /\ users = ApiUsers
  /\ direct = [s \in 1..MaxDirect |-> Idle]
  /\ pz = [c \in Callers |-> Idle]
  /\ jobs = JobsStopped
  /\ timers = [task \in Tasks |-> 0]
  /\ currentId = Len(ApiUsers) + 1
  /\ reg = [slot \in 1..MaxRegister |-> Idle]

NextApi ==
  \/ \E header \in ApiHeaders, id \in RouteIds : ApiMarkAsRead(header, id)
  \/ \E header \in ApiHeaders : ApiGetReadArticles(header)
  \/ \E header \in ApiHeaders, id \in RouteIds : ApiMarkAsFavorite(header, id)
  \/ \E header \in ApiHeaders, id \in RouteIds : ApiRemoveFavorite(header, id)
  \/ \E header \in ApiHeaders : ApiGetFavoriteArticles(header)
  \/ \E header \in ApiHeaders : ApiGetArticleStats(header)
  \/ \E header \in ApiHeaders : ApiGetPreferences(header)
  \/ \E header \in ApiHeaders, preferences \in ApiPreferenceBodies :
       ApiUpdatePreferences(header, preferences)
  \/ \E header \in ApiHeaders : ApiGetNews(header)
  \/ \E header \in ApiHeaders, slot \in 1..MaxDirect, raw \in RawQueries :
       ApiSearchNews(header, slot, raw)

SpecApi == InitApi /\ [][NextApi]_vars

(***************************************************************************)
(* CacheService.generateKey applied to parameter mappings                  *)
(***************************************************************************)
Str_q == <<"q">>
Str_lang == <<"l", "a", "n", "g">>
Str_max == <<"m", "a", "x">>

\* the parameter names and the prefixes of the calls
ParamNames == {Str_query, Str_q, Str_lang, Str_max}
Prefixes == {Str_search, Str_q}

\* the parameter mappings: up to MaxParams name/value pairs with distinct
\* names, in their insertion order
ParamLists ==
  {params \in UNION {[1..n -> [name : ParamNames, value : Queries]] : n \in 0..MaxParams} :
     \A i, j \in DOMAIN params : i # j => params[i].name # params[j].name}

\* cacheService.generateKey(prefix, params)
CallGenerateKey(prefix, params) ==
  /\ ret' = [op |-> "generateKey", prefix |-> prefix, params |-> params,
             value |-> generateKey(prefix, params)]
  /\ UNCHANGED <<now, cache, written, articleVars, newsVars, jobVars, userVars>>

InitKeys ==
  /\ now = 0
  /\ cache = EmptyMap
  /\ written = EmptyMap
  /\ ret = NoRet
  /\ articleMetadata = EmptyMap
  /\ readArticles = EmptyMap
  /\ favoriteArticles = EmptyMap
  /\ ncalls = 0
  /\ apiKey = Str_key
  /\ users = <<>>
  /\ direct = [s \in 1..MaxDirect |-> Idle]
  /\ pz = [c \in Callers |-> Idle]
  /\ jobs = JobsStopped
  /\ timers = [task \in Tasks |-> 0]
  /\ currentId = 1
  /\ reg = [slot \in 1..MaxRegister |-> Idle]

NextKeys == \E prefix \in Prefixes, params \in ParamLists : CallGenerateKey(prefix, params)

SpecKeys == InitKeys /\ [][NextKeys]_vars

(***************************************************************************)
(* C1: an entry is visible to get exactly when now < expiresAt: after      *)
(* set(k, v, ttl) at time s with no later set/delete/clear of k, get(k) at *)
(* time t returns v if t < s + ttl and a miss if t >= s + ttl.             *)
(* C1_Original states this; C1_Visible is the statement the code meets:    *)
(* get(k) at t returns v if t <= s + ttl and a miss if t > s + ttl.        *)
(***************************************************************************)
C1_Original ==
  ret.op = "get" =>
    ret.value = IF ret.key \in DOMAIN written
                   /\ ret.at < written[ret.key].at + written[ret.key].ttl
                THEN written[ret.key].value ELSE Null

C1_Visible ==
  ret.op = "get" =>
    ret.value = IF ret.key \in DOMAIN written
                   /\ ret.at <= written[ret.key].at + written[ret.key].ttl
                THEN written[ret.key].value ELSE Null

\* a get at exactly s + ttl that returned the value, after the clock moved
C1_Witness ==
  /\ ret.op = "get"
  /\ ret.key \in DOMAIN written
  /\ ret.at = written[ret.key].at + written[ret.key].ttl
  /\ ret.at > written[ret.key].at
  /\ ret.value = written[ret.key].value

(***************************************************************************)
(* C2: for every metadata entry whose age exceeds maxAge at the time of a  *)
(* sweep, clearOldMetadata deletes it if and only if its id is in no       *)
(* user's favorites map: an id in any user's favorites is kept, an id      *)
(* referenced only by read marks is deleted.                               *)
(***************************************************************************)
C2_SweepDeletesIffNoFavorite ==
  [][\A maxAge \in 0..MaxAge :
       CallClearOldMetadata(maxAge) =>
         \A id \in DOMAIN articleMetadata :
           now - articleMetadata[id].cachedAt > maxAge =>
             ((id \notin DOMAIN articleMetadata')
                <=> ~(\E u \in DOMAIN favoriteArticles : id \in DOMAIN favoriteArticles[u]))]_vars

\* after a sweep: an over-age entry kept by a favorite of user 2, and an id that
\* is still read-marked but whose metadata the sweep deleted
C2_Witness ==
  /\ ret.op = "clearOldMetadata"
  /\ ret.value > 0
  /\ \E id \in DOMAIN articleMetadata :
       /\ ret.at - articleMetadata[id].cachedAt > ret.maxAge
       /\ isFavorite(2, id)
       /\ ~isFavorite(1, id)
  /\ \E u \in UserIds, url \in URLs :
       /\ isRead(u, IdOf[url])
       /\ IdOf[url] \notin DOMAIN articleMetadata

(***************************************************************************)
(* C3: generateArticleId(url) depends only on url and two distinct URLs    *)
(* never get the same id, so the metadata of two different articles is     *)
(* never merged under one id: the metadata stored under the id returned    *)
(* for an article is the metadata of that article's URL.                   *)
(***************************************************************************)
C3_DistinctUrlsDistinctIds ==
  (ret.op \in {"markAsRead", "markAsFavorite"} /\ ret.articleId \in DOMAIN articleMetadata)
    => articleMetadata[ret.articleId].url = ret.url

(***************************************************************************)
(* Helpers of the statements about getPersonalizedNews.                    *)
(***************************************************************************)
\* the elements of s whose URL does not occur earlier in s, in the order of s
RECURSIVE FirstOccurrences(_, _)
FirstOccurrences(s, i) ==
  IF i > Len(s) THEN <<>>
  ELSE (IF \A j \in 1..(i - 1) : s[j].url # s[i].url THEN <<s[i]>> ELSE <<>>)
       \o FirstOccurrences(s, i + 1)

IsPrefix(s, t) == Len(s) <= Len(t) /\ \A i \in DOMAIN s : s[i] = t[i]

\* a finished call of getPersonalizedNews, as its caller saw it
IsNewsResult == ret.op = "getNews" /\ "fetched" \in DOMAIN ret

\* the per-preference result lists of the finished call, concatenated
FetchedArticles == Flatten([i \in DOMAIN ret.fetched |-> ret.fetched[i].articles])

(***************************************************************************)
(* C4: for every non-empty preference list and every subset of topics      *)
(* whose fetch fails (all of them included), getPersonalizedNews returns a  *)
(* success result built from the articles of the topics that succeeded      *)
(* only; a per-topic upstream failure is never raised to the caller.        *)
(***************************************************************************)
C4_PartialFailureIsolated ==
  IsNewsResult =>
    /\ ret.status = 200
    /\ ret.success
    /\ \A k \in DOMAIN ret.articles :
         \E i \in DOMAIN ret.fetched :
           ~ret.fetched[i].failed /\ ret.articles[k] \in Range(ret.fetched[i].articles)
    /\ \A i \in DOMAIN ret.fetched :
         (~ret.fetched[i].failed /\ Len(ret.articles) < MaxArticles) =>
           \A a \in Range(ret.fetched[i].articles) :
             \E k \in DOMAIN ret.articles : ret.articles[k].url = a.url
    /\ (\A i \in DOMAIN ret.fetched : ret.fetched[i].failed) => ret.articles = <<>>

\* one topic failed, the other one's articles were returned
C4_Witness ==
  /\ IsNewsResult
  /\ ret.status = 200
  /\ \E i \in DOMAIN ret.fetched : ret.fetched[i].failed
  /\ \E i \in DOMAIN ret.fetched : ~ret.fetched[i].failed
  /\ ret.articles # <<>>

C6_AtMostTenArticles ==
  IsNewsResult =>
    LET urls == {a.url : a \in Range(FetchedArticles)}
    IN /\ Len(ret.articles) <= MaxArticles
       /\ Len(ret.articles) = (IF Cardinality(urls) < MaxArticles
                               THEN Cardinality(urls) ELSE MaxArticles)
       /\ ret.totalArticles = Len(ret.articles)

\* eleven distinct URLs were fetched and ten articles returned
C6_Witness ==
  /\ IsNewsResult
  /\ Cardinality({a.url : a \in Range(FetchedArticles)}) > MaxArticles
  /\ Len(ret.articles) = MaxArticles

(***************************************************************************)
(* Helpers of the statements about searchNews.                             *)
(***************************************************************************)
\* the entry of query's key is in the cache c and unexpired at time t
Unexpired(c, query, t) ==
  SearchKey(query) \in DOMAIN c /\ t < c[SearchKey(query)].expiresAt

\* the step is the arrival of a valid GET /news/search?q=raw in slot
SearchStarts(slot, raw) ==
  /\ isConfigured
  /\ SearchRequests[raw].isValid
  /\ UNCHANGED <<now, pz>>
  /\ HttpSearch(slot, raw)

\* the step starts a call of the provider for query
CallsProvider(query) ==
  \/ \E slot \in DOMAIN direct :
       /\ direct[slot].pc = "idle"
       /\ direct'[slot].pc = "wait"
       /\ direct'[slot].query = query
  \/ /\ pz["getNews"].pc = "idle"
     /\ pz'["getNews"].pc = "wait"
     /\ \E i \in PendingIn(pz'["getNews"].entries) : pz'["getNews"].preferences[i] = query

(***************************************************************************)
(* C7: after a search for q has stored its result at time s, every later   *)
(* search for q started before s + 5 minutes returns the stored articles   *)
(* marked fromCache and calls the provider for nothing; a search for q is  *)
(* sent to the provider only when the cache holds no unexpired entry for q *)
(* at lookup time.  Stated on the steps: a successful search stores its    *)
(* result with expiresAt = now + CacheTTL; an unexpired entry stays as it  *)
(* is unless a search of the same query stores again; a search that finds  *)
(* an unexpired entry answers from it.                                     *)
(***************************************************************************)
C7_CachedSearchServedFromCache ==
  [][/\ \A slot \in DOMAIN direct, outcome \in AllOutcomes :
          (outcome.ok /\ HttpSearchReply(slot, outcome)) =>
            /\ SearchKey(direct[slot].query) \in DOMAIN cache'
            /\ LET entry == cache'[SearchKey(direct[slot].query)]
               IN /\ entry.expiresAt = now + CacheTTL
                  /\ entry.value.articles = outcome.data.articles
     /\ \A q \in Queries :
          (Unexpired(cache, q, now) /\ ~Unexpired(cache', q, now')) => now' # now
     /\ \A q \in Queries :
          (Unexpired(cache, q, now) /\ Unexpired(cache', q, now')
             /\ cache'[SearchKey(q)] # cache[SearchKey(q)])
            => \/ \E slot \in DOMAIN direct :
                    direct[slot].pc = "wait" /\ direct[slot].query = q
                      /\ direct'[slot].pc = "idle"
               \/ /\ pz["getNews"].pc = "wait"
                  /\ \E i \in PendingIn(pz["getNews"].entries) :
                       pz["getNews"].preferences[i] = q
     /\ \A slot \in DOMAIN direct, raw \in RawQueries :
          (Unexpired(cache, SearchRequests[raw].query, now) /\ SearchStarts(slot, raw)) =>
            /\ ret'.status = 200
            /\ ret'.fromCache
            /\ ret'.articles = cache[SearchKey(SearchRequests[raw].query)].value.articles
            /\ direct' = direct
     /\ \A q \in Queries : CallsProvider(q) => ~Unexpired(cache, q, now)]_vars

\* a search answered from the cache before the 5 minutes of the stored result are over
C7_Witness ==
  /\ ret.op = "searchNews"
  /\ ret.status = 200
  /\ ret.fromCache
  /\ SearchKey(ret.query) \in DOMAIN cache
  /\ ret.at = cache[SearchKey(ret.query)].cachedAt
  /\ ret.at < cache[SearchKey(ret.query)].expiresAt
  /\ ret.articles = cache[SearchKey(ret.query)].value.articles

(***************************************************************************)
(* C8: a direct search whose upstream call fails (provider unreachable,    *)
(* timed out, or answered 4xx/5xx) raises the corresponding error to its   *)
(* caller and stores nothing: the cache is the same after the failed       *)
(* search as before it.                                                    *)
(* C8_Original states this of the two steps of a search that may fail, its *)
(* lookup that misses and the failure of its call.  C8_FailureStoresNothing*)
(* is the statement the code meets: the lookup removes at most the expired *)
(* entry of the search's own key and the failure changes nothing.          *)
(***************************************************************************)
\* the status the claim expects for a failure of the call
CorrespondingStatus(error) == IF error.kind = "response" THEN error.status ELSE 503

C8_Original ==
  [][/\ \A slot \in DOMAIN direct, raw \in RawQueries :
          (direct'[slot].pc = "wait" /\ SearchStarts(slot, raw)) => cache' = cache
     /\ \A slot \in DOMAIN direct, outcome \in AllOutcomes :
          (~outcome.ok /\ HttpSearchReply(slot, outcome)) =>
            /\ cache' = cache
            /\ ret'.status = CorrespondingStatus(outcome.error)]_vars

C8_FailureStoresNothing ==
  [][/\ \A slot \in DOMAIN direct, raw \in RawQueries :
          (direct'[slot].pc = "wait" /\ SearchStarts(slot, raw)) =>
            LET key == SearchKey(SearchRequests[raw].query)
            IN /\ DOMAIN cache' = DOMAIN cache \ {key}
               /\ \A k \in DOMAIN cache' : cache'[k] = cache[k]
               /\ key \in DOMAIN cache => now > cache[key].expiresAt
     /\ \A slot \in DOMAIN direct, outcome \in AllOutcomes :
          (~outcome.ok /\ HttpSearchReply(slot, outcome)) =>
            /\ cache' = cache
            /\ ret'.status = CorrespondingStatus(outcome.error)]_vars

\* a search has just failed with the provider's 429 while the other query's
\* result stays cached
C8_Witness ==
  /\ ret.op = "searchNews"
  /\ ret.status = 429
  /\ SearchKey(ret.query) \notin DOMAIN cache
  /\ cache # EmptyMap

(***************************************************************************)
(* C9: when no provider credentials are configured, no call of the         *)
(* provider is ever issued, on any flow that can reach it (the             *)
(* personalized news request, the direct search request and the background *)
(* cache-warm task): while isConfigured is false no flow waits for an      *)
(* answer of the provider.                                                 *)
(***************************************************************************)
C9_NoCallWithoutCredentials == ~isConfigured => Pending = {}

(***************************************************************************)
(* C10: the scheduler is either stopped with none of the three timers      *)
(* armed or running with all three armed, each exactly once: start() while *)
(* running arms no additional timer, stop() while stopped changes nothing, *)
(* stop() while running disarms all three, start() while stopped (at first *)
(* or after a stop()) arms all three, getStatus() reports the three tasks  *)
(* as the running flag, and no other step touches the timers.              *)
(***************************************************************************)
SchedulerStopped ==
  /\ ~jobs.isRunning
  /\ \A task \in Tasks : ~jobs.intervals[task] /\ timers[task] = 0

SchedulerRunning ==
  /\ jobs.isRunning
  /\ \A task \in Tasks : jobs.intervals[task] /\ timers[task] = 1

C10_StoppedOrAllArmedOnce ==
  [][/\ SchedulerStopped \/ SchedulerRunning
     /\ SchedulerStopped' \/ SchedulerRunning'
     /\ (JobsStart /\ SchedulerRunning) => UNCHANGED jobVars
     /\ (JobsStart /\ SchedulerStopped) => SchedulerRunning'
     /\ (JobsStop /\ SchedulerStopped) => UNCHANGED jobVars
     /\ (JobsStop /\ SchedulerRunning) => SchedulerStopped'
     /\ JobsGetStatus =>
          /\ ret'.value.isRunning = SchedulerRunning
          /\ \A task \in Tasks : ret'.value.jobs[task] = ret'.value.isRunning
     /\ ~(JobsStart \/ JobsStop) => UNCHANGED jobVars]_vars

\* start() has just been called on the running scheduler, whose timers are
\* still armed once each
C10_Witness ==
  /\ ret.op = "start"
  /\ ret.wasRunning
  /\ SchedulerRunning

(***************************************************************************)
(* C11: for every user U and article id X, with or without metadata for X: *)
(* after markFavorite(U, X) the favorites of U hold exactly one entry with *)
(* id X, and it carries the favoritedAt of that call, however many times X *)
(* was favorited; a removeFavorite(U, X) of a favorite leaves no entry for *)
(* X and stats(U).totalFavorites one less (0 when X was the only one).     *)
(***************************************************************************)
FavoriteEntries(userId, articleId) ==
  {entry \in getFavoriteArticles(userId) : entry.id = articleId}

\* the step is a call of the named method with these arguments
Called(op, userId, articleId) ==
  ret'.op = op /\ ret'.userId = userId /\ ret'.articleId = articleId

MarksFavorite(userId, articleId) ==
  \/ Called("markAsFavoriteById", userId, articleId)
       /\ CallMarkAsFavoriteById(userId, articleId)
  \/ Called("markAsFavorite", userId, articleId)
       /\ \E a \in Articles : IdOf[a.url] = articleId /\ CallMarkAsFavorite(userId, a)

AllIds == RouteIds \cup {IdOf[url] : url \in URLs}

C11_FavoriteOnceThenRemoved ==
  [][\A u \in UserIds, id \in AllIds :
       /\ MarksFavorite(u, id) =>
            /\ Cardinality(FavoriteEntries(u, id)') = 1
            /\ \A entry \in FavoriteEntries(u, id)' : entry.favoritedAt = now
       /\ (Called("removeFavorite", u, id) /\ isFavorite(u, id)
             /\ CallRemoveFavorite(u, id)) =>
            /\ FavoriteEntries(u, id)' = {}
            /\ getUserStats(u)'.totalFavorites = getUserStats(u).totalFavorites - 1]_vars

\* X, a favorite of the user and the only one, has just been removed
C11_Witness ==
  /\ ret.op = "removeFavorite"
  /\ ret.value
  /\ FavoriteEntries(ret.userId, ret.articleId) = {}
  /\ getUserStats(ret.userId).totalFavorites = 0

(***************************************************************************)
(* C13: markRead is idempotent per user and id: marking an id that is      *)
(* already in the user's read set leaves the read set, its size and        *)
(* stats.totalRead unchanged, for the full article payload and the bare id.*)
(***************************************************************************)
C13_MarkReadIdempotent ==
  [][\A u \in UserIds :
       /\ \A id \in RouteIds :
            (isRead(u, id) /\ Called("markAsReadById", u, id)
               /\ CallMarkAsReadById(u, id)) =>
              /\ readArticles'[u] = readArticles[u]
              /\ getUserStats(u)'.totalRead = getUserStats(u).totalRead
       /\ \A a \in Articles :
            (isRead(u, IdOf[a.url]) /\ Called("markAsRead", u, IdOf[a.url])
               /\ CallMarkAsRead(u, a)) =>
              /\ readArticles'[u] = readArticles[u]
              /\ getUserStats(u)'.totalRead = getUserStats(u).totalRead]_vars

\* an id marked again, by payload, in a read set that holds another id too
C13_Witness ==
  /\ ret.op = "markAsRead"
  /\ ret.already
  /\ Cardinality(readArticles[ret.userId]) = 2

(***************************************************************************)
(* C12: removeFavorite(userId, id) returns true exactly when id was in     *)
(* that user's favorites before the call, and then removes it and nothing  *)
(* else; when id is absent, or the user has never interacted, it returns   *)
(* false, leaves the whole store unchanged, and the endpoint answers 404.  *)
(***************************************************************************)
C12_RemoveFavoriteReportsPresence ==
  [][\A id \in RouteIds :
       (ret'.op = "DELETE /news/:id/favorite" /\ ApiRemoveFavorite(Bearer(1), id)) =>
         /\ ret'.removed = isFavorite(1, id)
         /\ isFavorite(1, id) =>
              /\ ret'.status = 200
              /\ DOMAIN favoriteArticles'[1] = DOMAIN favoriteArticles[1] \ {id}
              /\ \A k \in DOMAIN favoriteArticles'[1] :
                   favoriteArticles'[1][k] = favoriteArticles[1][k]
              /\ \A u \in DOMAIN favoriteArticles \ {1} :
                   favoriteArticles'[u] = favoriteArticles[u]
              /\ UNCHANGED <<articleMetadata, readArticles>>
         /\ ~isFavorite(1, id) =>
              /\ ret'.status = 404
              /\ UNCHANGED <<articleMetadata, readArticles, favoriteArticles>>]_vars

\* the removal of an id that is not a favorite of the user, who has another
\* favorite, was answered 404
C12_Witness ==
  /\ ret.op = "DELETE /news/:id/favorite"
  /\ ret.status = 404
  /\ ~ret.removed
  /\ 1 \in DOMAIN favoriteArticles
  /\ DOMAIN favoriteArticles[1] # {}

(***************************************************************************)
(* C14: after a user has marked an article as read through the API (POST   *)
(* /news/:id/read answered 200), GET /news/read by that user lists the     *)
(* article, and the number of read articles it reports is the totalRead of *)
(* GET /news/stats: every answer of GET /news/read holds an article for    *)
(* each id of the user's read set and counts what the stats count.         *)
(***************************************************************************)
C14_ReadListShowsMarkedArticles ==
  [][(ret'.op = "GET /news/read" /\ ApiGetReadArticles(Bearer(1))) =>
       /\ \A id \in (IF 1 \in DOMAIN readArticles THEN readArticles[1] ELSE {}) :
            \E article \in ret'.articles : article.id = id
       /\ ret'.totalRead = getUserStats(1).totalRead]_vars

(***************************************************************************)
(* C15: user emails are unique: in every reachable state no two stored     *)
(* users have the same email, also when two registrations for the same     *)
(* email overlap (the duplicate check and the creation are separated by    *)
(* the asynchronous password hash).                                        *)
(***************************************************************************)
C15_EmailsUnique ==
  \A i, j \in DOMAIN users : i # j => users[i].email # users[j].email

(***************************************************************************)
(* C16: a request to a protected route (user preferences, news, article    *)
(* tracking) whose Authorization header carries no valid bearer token of   *)
(* a stored user is answered 401 and its handler does not run: the user    *)
(* records, the cache, the article store and the requests in flight are    *)
(* unchanged by it.                                                        *)
(***************************************************************************)
\* the header is "Bearer <token>", the token verifies, and its userId is that
\* of a stored user
ValidToken(header) ==
  /\ header.authorization = "Bearer"
  /\ header.token # ""
  /\ header.verify = "decoded"
  /\ \E i \in DOMAIN users : users[i].id = header.userId

\* a request with this header on any of the protected routes
ProtectedRequest(header) ==
  \/ \E id \in RouteIds : ApiMarkAsRead(header, id)
  \/ ApiGetReadArticles(header)
  \/ \E id \in RouteIds : ApiMarkAsFavorite(header, id)
  \/ \E id \in RouteIds : ApiRemoveFavorite(header, id)
  \/ ApiGetFavoriteArticles(header)
  \/ ApiGetArticleStats(header)
  \/ ApiGetPreferences(header)
  \/ \E preferences \in ApiPreferenceBodies : ApiUpdatePreferences(header, preferences)
  \/ ApiGetNews(header)
  \/ \E slot \in 1..MaxDirect, raw \in RawQueries : ApiSearchNews(header, slot, raw)

C16_NoTokenNoHandler ==
  [][\A header \in ApiHeaders :
       (~ValidToken(header) /\ ProtectedRequest(header)) =>
         /\ ret'.status = 401
         /\ UNCHANGED <<users, cache, written, articleVars, ncalls, direct, pz,
                        currentId, reg>>]_vars

\* a well-formed token of a user that is not stored was answered 401 while
\* user 1 has read marks and favorites that a handler could have touched
C16_Witness ==
  /\ ret.op = "authenticate"
  /\ ret.status = 401
  /\ ret.error = "USER_NOT_FOUND"
  /\ 1 \in DOMAIN readArticles
  /\ 1 \in DOMAIN favoriteArticles

(***************************************************************************)
(* C17: GET /users/preferences returns the preferences most recently       *)
(* stored for the user.  A registration stores the list it was given; a    *)
(* successful PUT /users/preferences with list P stores the normalized P   *)
(* (trimmed, lower-cased, duplicates removed, first-occurrence order); a   *)
(* PUT that is rejected, and every other step, leaves the stored           *)
(* preferences of every user unchanged; GET answers the stored list.       *)
(***************************************************************************)
StoredPreferences(userId) == users[findById(userId)].preferences

\* the position of the first item of list that normalizes to value
FirstOccurrence(list, value) ==
  CHOOSE i \in DOMAIN list :
    /\ toLowerCase(Trim(list[i])) = value
    /\ \A j \in 1..(i - 1) : toLowerCase(Trim(list[j])) # value

\* stored is list trimmed and lower-cased, without duplicates, in the order
\* of the first occurrences
IsNormalized(list, stored) ==
  /\ Range(stored) = {toLowerCase(Trim(list[i])) : i \in DOMAIN list}
  /\ \A i, j \in DOMAIN stored :
       i < j => FirstOccurrence(list, stored[i]) < FirstOccurrence(list, stored[j])

C17_PreferencesAreTheLastStored ==
  [][/\ \A userId \in TokenUserIds, P \in PreferenceBodies :
          (/\ ret'.op = "PUT /users/preferences"
           /\ ret'.status = 200
           /\ ApiUpdatePreferences(Bearer(userId), P)) =>
            /\ IsNormalized(P.items, StoredPreferences(userId)')
            /\ ret'.preferences = StoredPreferences(userId)'
            /\ \A i \in DOMAIN users :
                 users[i].id # userId => users'[i].preferences = users[i].preferences
     /\ \A header \in UserHeaders, P \in PreferenceBodies :
          (/\ ret'.op \in {"authenticate", "PUT /users/preferences"}
           /\ ret'.status # 200
           /\ ApiUpdatePreferences(header, P)) => users' = users
     /\ \A userId \in TokenUserIds :
          (/\ ret'.op = "GET /users/preferences"
           /\ ret'.status = 200
           /\ ApiGetPreferences(Bearer(userId))) =>
            /\ ret'.preferences = StoredPreferences(userId)
            /\ users' = users
     /\ \A slot \in 1..MaxRegister :
          (ret'.op = "register" /\ ret'.status = 201 /\ HttpRegisterHashed(slot)) =>
            /\ Len(users') = Len(users) + 1
            /\ users'[Len(users')].preferences = reg[slot].body.preferences.items
            /\ \A i \in DOMAIN users : users'[i].preferences = users[i].preferences
     /\ \A i \in DOMAIN users :
          users'[i].preferences # users[i].preferences =>
            /\ ret'.op = "PUT /users/preferences"
            /\ ret'.status = 200
            /\ ret'.userId = users[i].id]_vars

\* the user registered with ["ai", "ai"] reads ["ai", "tv"]: a PUT of
\* [" AI", "tv", "ai "] has replaced the registration list
C17_Witness ==
  /\ ret.op = "GET /users/preferences"
  /\ ret.status = 200
  /\ ret.preferences = <<Str_ai, Str_tv>>
  /\ \E i \in DOMAIN users : users[i].id = ret.userId /\ users[i].email = Str_email2

(***************************************************************************)
(* C18: in every state reached by registrations and preference updates,    *)
(* the preferences of every stored user are a list of at most 50 items     *)
(* that holds no value twice.                                              *)
(***************************************************************************)
C18_StoredPreferencesBoundedAndDistinct ==
  \A i \in DOMAIN users :
    /\ Len(users[i].preferences) <= MaxPreferencesAllowed
    /\ \A j, k \in DOMAIN users[i].preferences :
         j # k => users[i].preferences[j] # users[i].preferences[k]

(***************************************************************************)
(* C19: a news response reports fromCache true when its data was served    *)
(* from the cache and false when it was fetched from the provider.  A      *)
(* search answered at its arrival (a cache hit) reports true and one       *)
(* answered after the provider's reply reports false; a GET /news response *)
(* whose every per-topic search was a cache hit reports true, and one      *)
(* whose every search went to the provider reports false.                  *)
(***************************************************************************)
C19_FromCacheReportsSource ==
  [][/\ \A slot \in 1..MaxDirect :
          (ret'.op = "searchNews" /\ ret'.status = 200 /\ ret'.slot = slot) =>
            /\ (\E raw \in RawQueries : HttpSearch(slot, raw)) => ret'.fromCache
            /\ (\E outcome \in AllOutcomes : HttpSearchReply(slot, outcome)) =>
                 ~ret'.fromCache
     /\ (ret'.op = "getNews" /\ ret'.status = 200) =>
          /\ (\A i \in DOMAIN ret'.fetched : ret'.fetched[i].fromCache) => ret'.fromCache
          /\ (\A i \in DOMAIN ret'.fetched : ~ret'.fetched[i].fromCache) =>
               ~ret'.fromCache]_vars

(***************************************************************************)
(* C20: generateKey(prefix, params) is independent of the insertion order  *)
(* of the parameters: for every prefix, two parameter mappings that hold   *)
(* the same name/value pairs, inserted in different orders, give the same  *)
(* key.                                                                    *)
(***************************************************************************)
C20_KeyIndependentOfInsertionOrder ==
  ret.op = "generateKey" =>
    \A other \in ParamLists :
      Range(other) = Range(ret.params) => generateKey(ret.prefix, other) = ret.value

\* generateKey("search", {query: "ai", q: "tv"}) has returned
\* "search:q:tv|query:ai"
C20_Witness ==
  /\ ret.op = "generateKey"
  /\ ret.prefix = Str_search
  /\ ret.params = <<[name |-> Str_query, value |-> Str_ai],
                    [name |-> Str_q, value |-> Str_tv]>>
  /\ ret.value = Str_search \o <<":">> \o Str_q \o <<":">> \o Str_tv \o <<"|">>
                   \o Str_query \o <<":">> \o Str_ai

(***************************************************************************)
(* C21: metadata is stored at most once per id and the first write wins:   *)
(* storeArticleMetadata for an id that has metadata leaves the stored      *)
(* metadata, cachedAt included, unchanged and returns the same id.  A      *)
(* metadata entry never changes while it is stored, whatever later         *)
(* articles, read marks or favorites refer to its id, and it leaves the    *)
(* map only by clearOldMetadata.                                           *)
(***************************************************************************)
C21_MetadataFirstWriteWins ==
  [][/\ \A id \in DOMAIN articleMetadata :
          IF id \in DOMAIN articleMetadata'
          THEN articleMetadata'[id] = articleMetadata[id]
          ELSE ret'.op = "clearOldMetadata"
     /\ ret'.op \in {"markAsRead", "markAsFavorite"} =>
          /\ ret'.articleId = generateArticleId(ret'.url)
          /\ ret'.articleId \in DOMAIN articleMetadata']_vars

\* an article was marked whose id already had metadata, stored earlier for
\* another title
C21_Witness ==
  /\ ret.op \in {"markAsRead", "markAsFavorite"}
  /\ articleMetadata[ret.articleId].cachedAt < ret.at
  /\ \E a \in Articles :
       /\ a.url = ret.url
       /\ IdOf[a.url] = ret.articleId
       /\ a.title # articleMetadata[ret.articleId].title

(***************************************************************************)
(* C22: clearOldMetadata changes only the metadata map: every user's read  *)
(* set and favorites map, snapshots included, are the same before and      *)
(* after; the metadata entries that are not older than maxAge are          *)
(* untouched; no entry is added or altered; and the count returned is the  *)
(* number of metadata entries removed.                                     *)
(***************************************************************************)
C22_SweepTouchesOnlyMetadata ==
  [][\A maxAge \in 0..MaxAge :
       (ret'.op = "clearOldMetadata" /\ CallClearOldMetadata(maxAge)) =>
         /\ UNCHANGED <<readArticles, favoriteArticles>>
         /\ DOMAIN articleMetadata' \subseteq DOMAIN articleMetadata
         /\ \A id \in DOMAIN articleMetadata' : articleMetadata'[id] = articleMetadata[id]
         /\ \A id \in DOMAIN articleMetadata :
              now - articleMetadata[id].cachedAt <= maxAge => id \in DOMAIN articleMetadata'
         /\ ret'.value = Cardinality(DOMAIN articleMetadata \ DOMAIN articleMetadata')]_vars

\* a sweep has removed an entry and kept one whose age is exactly maxAge,
\* while a user holds read marks and another a favorite
C22_Witness ==
  /\ ret.op = "clearOldMetadata"
  /\ ret.value > 0
  /\ \E id \in DOMAIN articleMetadata : ret.at - articleMetadata[id].cachedAt = ret.maxAge
  /\ \E u \in DOMAIN readArticles : readArticles[u] # {}
  /\ \E u \in DOMAIN favoriteArticles : DOMAIN favoriteArticles[u] # {}

(***************************************************************************)
(* C23: set overwrites unconditionally and sets of one key are             *)
(* last-write-wins with no merge: after a set of key k the entry of k      *)
(* holds exactly the value of that set and expires at that set's time plus *)
(* its ttl, the other entries are as they were, every stored entry is that *)
(* of the last set of its key, and get returns no value of an earlier set. *)
(***************************************************************************)
C23_LastSetWins ==
  [][/\ \A k \in Keys, v \in CacheValues, ttl \in 1..MaxTtl :
          (ret'.op = "set" /\ ret'.key = k /\ CallSet(k, v, ttl)) =>
            /\ cache'[k].value = v
            /\ cache'[k].expiresAt = now + ttl
            /\ \A other \in DOMAIN cache' \ {k} :
                 other \in DOMAIN cache /\ cache'[other] = cache[other]
     /\ \A k \in DOMAIN cache' :
          /\ k \in DOMAIN written'
          /\ cache'[k].value = written'[k].value
          /\ cache'[k].expiresAt = written'[k].at + written'[k].ttl
     /\ (ret'.op = "get" /\ ret'.value # Null) =>
          /\ ret'.key \in DOMAIN written
          /\ ret'.value = written[ret'.key].value]_vars

\* a set has replaced an entry that held another value and expired later
C23_Witness ==
  /\ ret.op = "set"
  /\ ret.replaced # Null
  /\ ret.replaced # cache[ret.key].value
  /\ ret.at > 0
  /\ cache[ret.key].expiresAt = ret.at + 1

(***************************************************************************)
(* C24: while the scheduler runs, a failure inside a cycle of a task is    *)
(* absorbed.  No step of a task cycle, failed or not, changes isRunning,   *)
(* the handles held or the timers armed; and after a cache-warm cycle in   *)
(* which a call to the provider failed, each of the three tasks fires      *)
(* again unless stop() is called.                                          *)
(***************************************************************************)
\* the steps of the task cycles, by what they report
CycleOps == {"updatePopularNewsCache", "warmUser", "cleanupCache", "cleanupOldArticles"}

\* a cache-warm cycle has just finished a user for whom a call failed
FailedCycle ==
  /\ ret.op = "warmUser"
  /\ \E i \in DOMAIN ret.fetched : ret.fetched[i].failed

C24_FailureAbsorbed ==
  /\ [][(ret'.op \in CycleOps \/ ret'.op = "none") => UNCHANGED <<jobs, timers>>]_vars
  /\ (FailedCycle /\ jobs.isRunning) ~>
       (~jobs.isRunning \/ ret.op = "updatePopularNewsCache")
  /\ (FailedCycle /\ jobs.isRunning) ~> (~jobs.isRunning \/ ret.op = "cleanupCache")
  /\ (FailedCycle /\ jobs.isRunning) ~> (~jobs.isRunning \/ ret.op = "cleanupOldArticles")

\* a call of the cache-warm task has failed and the scheduler is running with
\* its three timers armed
C24_Witness ==
  /\ FailedCycle
  /\ jobs.isRunning
  /\ \A task \in Tasks : jobs.intervals[task] /\ timers[task] = 1

(***************************************************************************)
(* C25: in a cache-warm cycle getPersonalizedNews runs only for users      *)
(* among the first 10 stored users, in store order, and a failure while    *)
(* one user is processed does not keep the rest of the batch from being    *)
(* processed: when the cycle starts or a user is finished, the cycle goes  *)
(* on to the next user of the batch that has a preference the cache does   *)
(* not answer, and it ends only when no such user is left.                 *)
(***************************************************************************)
\* the positions of the batch: the first 10 stored users
BatchPositions == {k \in DOMAIN users : k <= 10}

PositionOf(userId) == CHOOSE k \in DOMAIN users : users[k].id = userId

\* the user at position k has no preferences, or the cache c answers each of
\* them at time t
ServedAt(c, k, t) ==
  \A i \in DOMAIN users[k].preferences :
    /\ SearchKey(users[k].preferences[i]) \in DOMAIN c
    /\ ~(t > c[SearchKey(users[k].preferences[i])].expiresAt)

\* after the user at position idx (0: the start of the cycle) the cycle waits
\* for the next user of the batch that needs the provider, or has ended
GoesOn(idx) ==
  IF pz'["warm"].pc = "wait"
  THEN LET next == PositionOf(pz'["warm"].userId)
       IN /\ next \in BatchPositions
          /\ next > idx
          /\ \A k \in (idx + 1)..(next - 1) : ServedAt(cache', k, now)
  ELSE \A k \in BatchPositions : k > idx => ServedAt(cache', k, now)

C25_WarmBatchIsFirstTenAndGoesOn ==
  [][/\ ret'.op = "warmUser" => PositionOf(ret'.userId) \in BatchPositions
     /\ pz'["warm"].pc = "wait" => PositionOf(pz'["warm"].userId) \in BatchPositions
     /\ ret'.op = "updatePopularNewsCache" => GoesOn(0)
     /\ ret'.op = "warmUser" => GoesOn(PositionOf(ret'.userId))]_vars

\* the call for the first user has failed and the cycle is at the tenth user,
\* with an eleventh user stored
C25_Witness ==
  /\ ret.op = "warmUser"
  /\ ret.userId = 1
  /\ \E i \in DOMAIN ret.fetched : ret.fetched[i].failed
  /\ pz["warm"].pc = "wait"
  /\ pz["warm"].userId = 10
  /\ Len(users) > 10

(***************************************************************************)
(* C26: after stop() no new cycle of any of the three tasks begins until a *)
(* later start(): a cycle begins only while the scheduler is running.  A   *)
(* cycle in flight when stop() is called is not interrupted: stop() leaves *)
(* the pending calls and the cache as they are, and the cycle runs to its  *)
(* end (its replies may still be stored in the cache after stop()).        *)
(***************************************************************************)
C26_StopCancelsOnlyFutureCycles ==
  /\ [][/\ ret'.op \in {"updatePopularNewsCache", "cleanupCache", "cleanupOldArticles"} =>
            jobs.isRunning
        /\ ret'.op = "stop" => UNCHANGED <<pz, cache, articleMetadata>>]_vars
  /\ (~jobs.isRunning /\ pz["warm"].pc = "wait") ~> (pz["warm"].pc = "idle")

\* with the scheduler stopped and no timer armed, the cache-warm cycle has
\* finished a user and stored what the provider answered
C26_Witness ==
  /\ ~jobs.isRunning
  /\ \A task \in Tasks : timers[task] = 0
  /\ ret.op = "warmUser"
  /\ \E i \in DOMAIN ret.fetched :
       /\ ~ret.fetched[i].failed
       /\ ~ret.fetched[i].fromCache
  /\ cache # EmptyMap

(***************************************************************************)
(* C27: a cache-sweep cycle removes every entry that is expired at the     *)
(* time of the sweep and no other, by the expiry test of get (an entry is  *)
(* removed exactly when get of its key would have missed), and leaves the  *)
(* entries it keeps as they are; right after it the stats report           *)
(* expired = 0 and total = valid.  While the scheduler runs, an entry that *)
(* has expired is eventually removed, also when its key is never read.     *)
(***************************************************************************)
C27_SweepRemovesExactlyTheExpired ==
  /\ [][(ret'.op = "cleanupCache" /\ FireCacheCleanup) =>
          /\ DOMAIN cache' \subseteq DOMAIN cache
          /\ \A k \in DOMAIN cache :
               /\ (k \notin DOMAIN cache') <=> (now > cache[k].expiresAt)
               /\ (k \notin DOMAIN cache') <=> (CacheService_get(cache, k, now).value = Null)
               /\ k \in DOMAIN cache' => cache'[k] = cache[k]
          /\ ret'.stats.expired = 0
          /\ ret'.stats.total = ret'.stats.valid
          /\ ret'.stats.total = Cardinality(DOMAIN cache')]_vars
  /\ \A k \in Keys :
       (jobs.isRunning /\ k \in DOMAIN cache /\ now > cache[k].expiresAt) ~>
         (~jobs.isRunning \/ k \notin DOMAIN cache \/ ~(now > cache[k].expiresAt))

\* a sweep has removed an entry and kept another
C27_Witness ==
  /\ ret.op = "cleanupCache"
  /\ ret.before > ret.stats.total
  /\ ret.stats.total > 0
  /\ cache # EmptyMap

(***************************************************************************)
(* C28: tracking state is isolated per user: a markAsRead, markAsFavorite  *)
(* or removeFavorite of user A, by payload or by id, leaves the read set   *)
(* and the favorites map of every other user B unchanged, and with them    *)
(* isRead, isFavorite, the favorite articles and the totalRead and         *)
(* totalFavorites of B.                                                    *)
(***************************************************************************)
TrackingOps ==
  {"markAsRead", "markAsReadById", "markAsFavorite", "markAsFavoriteById", "removeFavorite"}

C28_TrackingIsolatedPerUser ==
  [][ret'.op \in TrackingOps =>
       \A B \in UserIds \ {ret'.userId} :
         /\ (B \in DOMAIN readArticles') = (B \in DOMAIN readArticles)
         /\ B \in DOMAIN readArticles => readArticles'[B] = readArticles[B]
         /\ (B \in DOMAIN favoriteArticles') = (B \in DOMAIN favoriteArticles)
         /\ B \in DOMAIN favoriteArticles => favoriteArticles'[B] = favoriteArticles[B]
         /\ \A id \in AllIds :
              /\ isRead(B, id)' = isRead(B, id)
              /\ isFavorite(B, id)' = isFavorite(B, id)
         /\ getFavoriteArticles(B)' = getFavoriteArticles(B)
         /\ getUserStats(B)'.totalRead = getUserStats(B).totalRead
         /\ getUserStats(B)'.totalFavorites = getUserStats(B).totalFavorites]_vars

\* user 1 has favorited an article that user 2, who holds a favorite and a
\* read mark, has not
C28_Witness ==
  /\ ret.op = "markAsFavorite"
  /\ ret.userId = 1
  /\ 2 \in DOMAIN favoriteArticles
  /\ DOMAIN favoriteArticles[2] # {}
  /\ ret.articleId \notin DOMAIN favoriteArticles[2]
  /\ 2 \in DOMAIN readArticles

(***************************************************************************)
(* C29: searches of one query q that overlap in time while no unexpired    *)
(* entry of q is cached (two requests, a preference repeated within one    *)
(* getPersonalizedNews call, a request overlapping the cache-warm task)    *)
(* make at most one call to the provider for q: in every state at most one *)
(* call for q is in flight.                                                *)
(***************************************************************************)
\* the calls to the provider in flight for query q
CallsInFlight(q) ==
  {<<"direct", s>> : s \in {x \in DOMAIN direct :
                              direct[x].pc = "wait" /\ direct[x].query = q}}
    \cup UNION {{<<c, i>> : i \in {x \in PendingIn(pz[c].entries) :
                                     pz[c].preferences[x] = q}} :
                 c \in {x \in Callers : pz[x].pc = "wait"}}

C29_AtMostOneCallPerQuery ==
  \A q \in Queries : Cardinality(CallsInFlight(q)) <= 1

(***************************************************************************)
(* C30: two searches with different query strings never use the same cache *)
(* key, so a search for q returns either the provider's answer for q or a  *)
(* cached result stored by an earlier search for q, never the result of a  *)
(* different query: the keys of distinct queries differ; the entry under   *)
(* the key of q is always an answer of the provider for q and is written   *)
(* only by a step that ends a call for q; every successful search of q,    *)
(* direct or as one preference of GET /news, carries an answer for q.      *)
(***************************************************************************)
\* the query strings searched in the model, the sanitized requests included
QueryStrings ==
  Queries \cup {SearchRequests[raw].query :
                  raw \in {x \in RawQueries : SearchRequests[x].isValid}}

\* the article lists the provider answers a search of q with
AnswersFor(q) == {d.articles : d \in Responses(q)}

C30_SearchNeverAnswersAnotherQuery ==
  /\ [](\A q1, q2 \in QueryStrings : q1 # q2 => SearchKey(q1) # SearchKey(q2))
  /\ [](\A q \in Queries :
          SearchKey(q) \in DOMAIN cache
            => cache[SearchKey(q)].value.articles \in AnswersFor(q))
  /\ [][\A q \in Queries :
          (/\ SearchKey(q) \in DOMAIN cache'
           /\ (SearchKey(q) \in DOMAIN cache
                 => cache'[SearchKey(q)] # cache[SearchKey(q)]))
            => /\ CallsInFlight(q)' # CallsInFlight(q)
               /\ CallsInFlight(q)' \subseteq CallsInFlight(q)]_vars
  /\ [][/\ (ret'.op = "searchNews" /\ ret' # ret /\ ret'.status = 200)
            => ret'.articles \in AnswersFor(ret'.query)
        /\ (ret'.op = "getNews" /\ ret' # ret /\ "fetched" \in DOMAIN ret')
            => \A i \in DOMAIN ret'.fetched :
                 \/ ret'.fetched[i].failed
                 \/ ret'.fetched[i].articles \in AnswersFor(ret'.preferences[i])]_vars

\* a search of tv answered from the cache while the entry of ai is cached too
C30_Witness ==
  /\ ret.op = "searchNews"
  /\ ret.status = 200
  /\ ret.fromCache
  /\ ret.query = Str_tv
  /\ ret.articles \in AnswersFor(Str_tv)
  /\ SearchKey(Str_ai) \in DOMAIN cache

====
